---- MODULE Spec2Model ----
(***************************************************************************)
(* Scene Composition Engine of RealmForge: template store and inheritance, *)
(* parameter substitution, Poisson-disk scatter, interactive-object state  *)
(* machines and the layers of the scene composer.                          *)
(***************************************************************************)
EXTENDS Integers, Sequences, FiniteSets, TLC

VARIABLES
    templates,      \* TemplateManager.templates: name -> SceneTemplate
    requested,      \* argument of the last get_template call ("" before any call)
    result,         \* what the last get_template call returned or raised
    data,           \* _substitute_parameters: the data structure to process
    parameters,     \* _substitute_parameters: the parameter values
    substituted,    \* _substitute_parameters: the returned structure (None before the call)
    width,          \* _generate_moss_positions: size["width"]
    length,         \* _generate_moss_positions: size["length"]
    points,         \* accepted points, in order of acceptance
    active,         \* points that may still spawn candidates
    grid_width,     \* number of grid cells along x
    grid_length,    \* number of grid cells along z
    grid,           \* background grid: cell -> index into points, -1 when empty
    scatter_pc,     \* position in _generate_moss_positions
    request,        \* generate_scene: the SceneRequest
    location_data,  \* what the Location Provider returns for request.location_id
    texture_id,     \* the id of the texture the asset manager returns
    scene_template, \* generate_scene: the template get_template returned
    quality_settings, \* generate_scene: the settings of the requested tier
    scene_def,      \* the SceneDefinition under construction
    cursor,         \* index of the next element of the layer being added
    scene_pc,       \* position in generate_scene
    scene_error,    \* the exception generate_scene ended with, "" when none
    response,       \* the SceneResponse returned, None before the return
    clicks,         \* click events delivered to the objects of the returned scene
    sequences,      \* AnimationSystem.sequences: name -> AnimationSequence
    chains,         \* AnimationSystem.chains: name -> AnimationChain
    controller,     \* the chain controller of the emitted code, None before emission
    playing,        \* indices of the stages whose timeline is playing
    conditions_met, \* stage index -> what checkConditions returns for its conditions now
    pattern_library, \* TemplateManager.patterns: name -> pattern
    pattern_scene,  \* the scene definition handed to apply_pattern
    applied,        \* the last apply_pattern call: pattern name and parameters
    last_log,       \* what the last apply_pattern call logged, "" when nothing
    active_scenes,  \* VisualizationService.active_scenes: scene id -> SceneDefinition
    uuids_issued,   \* number of uuid.uuid4() values drawn so far
    service_request, \* the request of the last VisualizationService.generate_scene call
    service_response, \* what that call returned
    template_files, \* the template files of the directory, in the order glob yields them
    pattern_files,  \* the pattern files of the directory, in the order glob yields them
    load_pc,        \* TemplateManager.__init__: "start" before, "constructed" after
    load_log,       \* what the construction logged, in order
    sequence_arg,   \* the sequence handed to _generate_sequence_code
    sequence_code   \* what _generate_sequence_code produced, None before the call

templateVars == <<templates, requested, result>>
substVars == <<data, parameters, substituted>>
scatterVars == <<width, length, grid_width, grid_length, points, active, grid, scatter_pc>>
sceneInputs == <<request, location_data, texture_id>>
sceneVars == <<request, location_data, texture_id, scene_template, quality_settings,
               scene_def, cursor, scene_pc, scene_error, response, clicks>>
animVars == <<sequences, chains, controller, playing, conditions_met>>
\* The components modelled after the scene composer.
patternVars == <<pattern_library, pattern_scene, applied, last_log>>
serviceVars == <<active_scenes, uuids_issued, service_request, service_response>>
loadVars == <<template_files, pattern_files, load_pc, load_log>>
timelineVars == <<sequence_arg, sequence_code>>
restVars == <<animVars, patternVars, serviceVars, loadVars, timelineVars>>
vars == <<templateVars, substVars, scatterVars, sceneVars, restVars>>

(***************************************************************************)
(* Python values.  A value carries its type in field t, so that None, an   *)
(* empty list, an empty dict and a string are all distinct and comparable. *)
(***************************************************************************)
NoneVal == [t |-> "None"]
ListVal(s) == [t |-> "list", v |-> s]
DictVal(f) == [t |-> "dict", v |-> f]
StrVal(s) == [t |-> "str", v |-> s]
IntVal(n) == [t |-> "int", v |-> n]
EmptyDict == [k \in {} |-> NoneVal]

\* Python truth value: None, [], {} and "" are false, every object is true.
Truthy(x) ==
    CASE x.t = "None" -> FALSE
      [] x.t = "list" -> Len(x.v) > 0
      [] x.t = "dict" -> DOMAIN x.v # {}
      [] x.t = "str"  -> x.v # ""
      [] OTHER -> TRUE

\* Python `a or b`.
PyOr(a, b) == IF Truthy(a) THEN a ELSE b

\* {**a, **b} on the contents of two dicts.
DictUnion(a, b) ==
    [k \in (DOMAIN a) \cup (DOMAIN b) |-> IF k \in DOMAIN b THEN b[k] ELSE a[k]]

(***************************************************************************)
(* Each specification below exercises one component; the others stay as    *)
(* constructed, with no call made on them.                                 *)
(***************************************************************************)
TemplatesIdle ==
    /\ templates = EmptyDict
    /\ requested = ""
    /\ result = NoneVal

SubstIdle ==
    /\ data = NoneVal
    /\ parameters = EmptyDict
    /\ substituted = NoneVal

ScatterIdle ==
    /\ width = 0
    /\ length = 0
    /\ points = <<>>
    /\ active = <<>>
    /\ grid_width = 0
    /\ grid_length = 0
    /\ grid = <<>>
    /\ scatter_pc = "idle"

SceneIdle ==
    /\ request = NoneVal
    /\ location_data = NoneVal
    /\ texture_id = ""
    /\ scene_template = NoneVal
    /\ quality_settings = NoneVal
    /\ scene_def = NoneVal
    /\ cursor = 0
    /\ scene_pc = "idle"
    /\ scene_error = ""
    /\ response = NoneVal
    /\ clicks = <<>>

AnimIdle ==
    /\ sequences = EmptyDict
    /\ chains = EmptyDict
    /\ controller = NoneVal
    /\ playing = {}
    /\ conditions_met = <<>>

PatternIdle ==
    /\ pattern_library = EmptyDict
    /\ pattern_scene = NoneVal
    /\ applied = NoneVal
    /\ last_log = ""

ServiceIdle ==
    /\ active_scenes = EmptyDict
    /\ uuids_issued = 0
    /\ service_request = NoneVal
    /\ service_response = NoneVal

LoadIdle ==
    /\ template_files = <<>>
    /\ pattern_files = <<>>
    /\ load_pc = "idle"
    /\ load_log = <<>>

TimelineIdle ==
    /\ sequence_arg = NoneVal
    /\ sequence_code = NoneVal

RestIdle == AnimIdle /\ PatternIdle /\ ServiceIdle /\ LoadIdle /\ TimelineIdle

(***************************************************************************)
(* Parameter substitution                                                  *)
(***************************************************************************)
\* Longest list among the inputs of a substitution.
MaxListLen == 2

\* str.startswith("$") and the slice value[1:].
StartsWithDollar(s) == Len(s) >= 1 /\ SubSeq(s, 1, 1) = "$"
ParamName(s) == SubSeq(s, 2, Len(s))

\* parameters.get(name, default)
ParametersGet(params, name, default) ==
    IF name \in DOMAIN params THEN params[name] ELSE default

RECURSIVE substitute_parameters(_, _)
substitute_parameters(d, params) ==
    DictVal([key \in DOMAIN d.v |->
        LET value == d.v[key] IN
        IF value.t = "str" /\ StartsWithDollar(value.v)
        THEN ParametersGet(params, ParamName(value.v), value)
        ELSE IF value.t = "dict"
        THEN substitute_parameters(value, params)
        ELSE IF value.t = "list"
        THEN ListVal([i \in 1..Len(value.v) |->
                 LET item == value.v[i] IN
                 IF item.t = "dict" THEN substitute_parameters(item, params)
                 ELSE item])
        ELSE value])

\* Inputs: scalars, dicts of scalars, lists of scalars, dicts and lists, and
\* a top-level dict over the keys a and b.
SubstScalars == {StrVal("$p"), StrVal("$q"), StrVal("a$p"), IntVal(7)}
SubstInnerDicts ==
    {DictVal(EmptyDict)} \cup {DictVal([k \in {"x"} |-> sc]) : sc \in SubstScalars}
SubstItems == SubstScalars \cup SubstInnerDicts \cup {ListVal(<<StrVal("$p")>>)}
SubstLists ==
    {ListVal(items) : items \in UNION {[1..n -> SubstItems] : n \in 0..MaxListLen}}
SubstValues == SubstScalars \cup SubstInnerDicts \cup SubstLists
SubstInputs ==
    {DictVal(EmptyDict)}
    \cup {DictVal([k \in {"a"} |-> va]) : va \in SubstValues}
    \cup {DictVal([k \in {"a", "b"} |-> IF k = "a" THEN va ELSE vb]) :
             va \in SubstValues, vb \in SubstScalars}
SubstParameters ==
    {[k \in ks |-> IF k = "p" THEN IntVal(1) ELSE IntVal(2)] :
        ks \in {{}, {"p"}, {"p", "q"}}}

InitSubst ==
    /\ data \in SubstInputs
    /\ parameters \in SubstParameters
    /\ substituted = NoneVal
    /\ TemplatesIdle
    /\ ScatterIdle
    /\ SceneIdle
    /\ RestIdle

Substitute ==
    /\ substituted = NoneVal
    /\ substituted' = substitute_parameters(data, parameters)
    /\ UNCHANGED <<data, parameters, templateVars, scatterVars, sceneVars, restVars>>

NextSubst == Substitute

SpecSubst == InitSubst /\ [][NextSubst]_vars

\* The rewrite the specification describes, at every nesting depth.
RECURSIVE ReferenceRewrite(_, _)
ReferenceRewrite(value, params) ==
    IF value.t = "str"
    THEN (IF StartsWithDollar(value.v) /\ ParamName(value.v) \in DOMAIN params
          THEN params[ParamName(value.v)] ELSE value)
    ELSE IF value.t = "dict"
    THEN DictVal([k \in DOMAIN value.v |-> ReferenceRewrite(value.v[k], params)])
    ELSE IF value.t = "list"
    THEN ListVal([i \in 1..Len(value.v) |-> ReferenceRewrite(value.v[i], params)])
    ELSE value

\* C2: the substituted structure equals the reference rewrite of the data:
\* every string starting with `$`, also one that is an item of a list, is
\* replaced by its parameter when there is one and kept otherwise.
C2_SubstituteIsReferenceRewrite ==
    substituted # NoneVal => substituted = ReferenceRewrite(data, parameters)

(***************************************************************************)
(* Poisson-disk scatter (_generate_moss_positions).  Coordinates are the   *)
(* integer points of the plane; width and length are even, so that the     *)
(* rectangle's edges -width/2 and width/2 are integers too.                *)
(***************************************************************************)
\* Largest half-width and half-length of the rectangle.
MaxHalfWidth == 2
MaxHalfLength == 1
\* Points the exploration lets the loop accept before it only retires.
MaxAccepted == 3

radius == 2
\* k of the source: candidates tried around one active point.
k_attempts == 30
MaxPoints == 100

\* int(n / grid_cell_size) with grid_cell_size = radius / sqrt(2): the
\* integer part of n * sqrt(2) / radius, truncated toward zero.
CellsBelow(n) ==
    CHOOSE g \in 0..(2 * n) :
        /\ g * g * radius * radius <= 2 * n * n
        /\ (g + 1) * (g + 1) * radius * radius > 2 * n * n
CellsBelowTable == [n \in 0..(2 * (MaxHalfWidth + MaxHalfLength + 1)) |-> CellsBelow(n)]
IntDivCell(n) ==
    IF n \in DOMAIN CellsBelowTable THEN CellsBelowTable[n]
    ELSE IF n >= 0 THEN CellsBelow(n) ELSE 0 - CellsBelow(0 - n)

Min(a, b) == IF a < b THEN a ELSE b
Max(a, b) == IF a > b THEN a ELSE b

\* x + width/2, with width even.
HalfWidth == width \div 2
HalfLength == length \div 2

get_grid_point(x, z) ==
    LET gx == IntDivCell(x + HalfWidth)
        gz == IntDivCell(z + HalfLength)
    IN <<Min(Max(gx, 0), grid_width - 1), Min(Max(gz, 0), grid_length - 1)>>

cell_range == IntDivCell(radius) + 1

\* The neighbourhood test of is_valid_point: no recorded point of a nearby
\* cell is closer than radius.
FarFromNeighbours(x, z, range) ==
    LET g == get_grid_point(x, z) IN
    \A i \in (0 - range)..range, j \in (0 - range)..range :
        LET test_gx == g[1] + i
            test_gz == g[2] + j
        IN (/\ 0 <= test_gx /\ test_gx < grid_width
            /\ 0 <= test_gz /\ test_gz < grid_length
            /\ grid[<<test_gx, test_gz>>] # -1)
           => LET p == points[grid[<<test_gx, test_gz>>] + 1]
              IN ~((x - p[1]) * (x - p[1]) + (z - p[2]) * (z - p[2]) < radius * radius)

\* is_valid_point without the test against the rectangle.
is_valid_point_unbounded(x, z) == FarFromNeighbours(x, z, cell_range)

is_valid_point(x, z) ==
    IF x < 0 - HalfWidth \/ x > HalfWidth \/ z < 0 - HalfLength \/ z > HalfLength
    THEN FALSE
    ELSE FarFromNeighbours(x, z, cell_range)

\* Offsets r*(cos theta, sin theta) with r in [radius, 2*radius].
Annulus ==
    {d \in ((0 - 2 * radius)..(2 * radius)) \X ((0 - 2 * radius)..(2 * radius)) :
        /\ d[1] * d[1] + d[2] * d[2] >= radius * radius
        /\ d[1] * d[1] + d[2] * d[2] <= 4 * radius * radius}

\* A pop that empties the list.
Pop_all(seq, i) == <<>>

\* list.pop(i) for a 1-based position i.
Pop(seq, i) == SubSeq(seq, 1, i - 1) \o SubSeq(seq, i + 1, Len(seq))

InitScatter ==
    /\ width \in {2 * h : h \in 1..MaxHalfWidth}
    /\ length \in {2 * h : h \in 1..MaxHalfLength}
    /\ points = <<>>
    /\ active = <<>>
    /\ grid_width = IntDivCell(width) + 1
    /\ grid_length = IntDivCell(length) + 1
    /\ grid = [c \in (0..(grid_width - 1)) \X (0..(grid_length - 1)) |-> -1]
    /\ scatter_pc = "seed"
    /\ TemplatesIdle
    /\ SubstIdle
    /\ SceneIdle
    /\ RestIdle

\* Lines 1269-1276: the first point, anywhere in the rectangle.
Seed ==
    /\ scatter_pc = "seed"
    /\ \E x \in (0 - HalfWidth)..HalfWidth, z \in (0 - HalfLength)..HalfLength :
          /\ points' = Append(points, <<x, z>>)
          /\ active' = Append(active, <<x, z>>)
          /\ grid' = [grid EXCEPT ![<<IntDivCell(x + HalfWidth), IntDivCell(z + HalfLength)>>] = 0]
    /\ scatter_pc' = "loop"
    /\ UNCHANGED <<width, length, grid_width, grid_length, templateVars, substVars, sceneVars, restVars>>

\* Lines 1313-1331, one iteration of the while loop that finds a valid
\* candidate: an active point is picked, and after fewer than k invalid
\* candidates a candidate in its annulus passes is_valid_point and is
\* appended.
AcceptCandidate ==
    /\ scatter_pc = "loop"
    /\ active # <<>> /\ Len(points) < MaxPoints
    /\ k_attempts >= 1
    /\ Len(points) < MaxAccepted
    /\ \E i \in 1..Len(active), d \in Annulus :
          LET x == active[i][1] + d[1]
              z == active[i][2] + d[2]
          IN /\ is_valid_point(x, z)
             /\ points' = Append(points, <<x, z>>)
             /\ active' = Append(active, <<x, z>>)
             /\ grid' = [grid EXCEPT ![get_grid_point(x, z)] = Len(points)]
    /\ UNCHANGED <<width, length, grid_width, grid_length, scatter_pc, templateVars, substVars, sceneVars, restVars>>

\* Lines 1313-1334, one iteration of the while loop in which all k
\* candidates (drawn independently, so possibly the same one) are invalid:
\* the active point is retired.
Retire ==
    /\ scatter_pc = "loop"
    /\ active # <<>> /\ Len(points) < MaxPoints
    /\ \E i \in 1..Len(active) :
          /\ \/ k_attempts = 0
             \/ {d \in Annulus :
                   ~is_valid_point(active[i][1] + d[1], active[i][2] + d[2])} # {}
          /\ active' = Pop(active, i)
    /\ UNCHANGED <<width, length, grid_width, grid_length, points, grid, scatter_pc, templateVars, substVars, sceneVars, restVars>>

\* Line 1337: the loop is left and the points are returned.
ReturnPoints ==
    /\ scatter_pc = "loop"
    /\ ~(active # <<>> /\ Len(points) < MaxPoints)
    /\ scatter_pc' = "done"
    /\ UNCHANGED <<width, length, grid_width, grid_length, points, active, grid, templateVars, substVars, sceneVars, restVars>>

NextScatter == Seed \/ AcceptCandidate \/ Retire \/ ReturnPoints

SpecScatter == InitScatter /\ [][NextScatter]_vars

\* The call runs on: the interpreter executes the next statement of the
\* function as long as there is one.
SpecScatterFair == SpecScatter /\ WF_vars(NextScatter)

InRectangle(p) ==
    /\ 0 - HalfWidth <= p[1] /\ p[1] <= HalfWidth
    /\ 0 - HalfLength <= p[2] /\ p[2] <= HalfLength
DistanceSquared(p, q) ==
    (p[1] - q[1]) * (p[1] - q[1]) + (p[2] - q[2]) * (p[2] - q[2])

\* C3: at every step of the scatter loop and at its return, every accepted
\* point is inside [-width/2, width/2] x [-length/2, length/2] and any two
\* accepted points are at least radius apart.
C3_MinimumSeparation ==
    /\ \A i \in 1..Len(points) : InRectangle(points[i])
    /\ \A i \in 1..Len(points), j \in 1..Len(points) :
          i # j => DistanceSquared(points[i], points[j]) >= radius * radius

\* The scatter returned at least three points after retiring an active point.
C3_Witness ==
    /\ scatter_pc = "done"
    /\ Len(points) >= 3
    /\ Len(active) < Len(points)

\* One iteration of the while loop appended one point to the output and to
\* the active list.
IterationAppends ==
    /\ Len(points) < MaxPoints
    /\ Len(points') = Len(points) + 1
    /\ SubSeq(points', 1, Len(points)) = points
    /\ active' = Append(active, points'[Len(points')])

\* One iteration of the while loop retired one active point and left the
\* output as it was.
IterationRetires ==
    /\ points' = points
    /\ \E i \in 1..Len(active) : active' = SubSeq(active, 1, i - 1)
                                           \o SubSeq(active, i + 1, Len(active))

TemplateNames == {"a", "b", "c"}
ListFields == <<"objects", "lights", "camera", "environment", "animations", "patterns">>
VariableKeys == {"k1", "k2"}

\* Depth at which the interpreter gives up a recursion (RecursionError).
RecursionLimit == 4
RecursionError == [t |-> "RecursionError"]

SceneTemplate(name, base, objects, lights, camera, environment, animations, patterns, variables) ==
    [t |-> "SceneTemplate", name |-> name, base_template |-> base,
     objects |-> objects, lights |-> lights, camera |-> camera,
     environment |-> environment, animations |-> animations,
     patterns |-> patterns, variables |-> variables]

\* dict.get(name) on the store.
TemplatesGet(store, name) ==
    IF name \in DOMAIN store THEN store[name] ELSE NoneVal

\* merge_templates with the base taking precedence for objects.
merge_templates_base_wins(base, override) ==
    SceneTemplate(
        override.name,
        override.base_template,
        PyOr(base.objects, override.objects),
        PyOr(override.lights, base.lights),
        PyOr(override.camera, base.camera),
        PyOr(override.environment, base.environment),
        PyOr(override.animations, base.animations),
        PyOr(override.patterns, base.patterns),
        DictVal(DictUnion(PyOr(base.variables, DictVal(EmptyDict)).v,
                          PyOr(override.variables, DictVal(EmptyDict)).v)))

merge_templates(base, override) ==
    SceneTemplate(
        override.name,
        override.base_template,
        PyOr(override.objects, base.objects),
        PyOr(override.lights, base.lights),
        PyOr(override.camera, base.camera),
        PyOr(override.environment, base.environment),
        PyOr(override.animations, base.animations),
        PyOr(override.patterns, base.patterns),
        DictVal(DictUnion(PyOr(base.variables, DictVal(EmptyDict)).v,
                          PyOr(override.variables, DictVal(EmptyDict)).v)))

RECURSIVE get_template_at(_, _, _)
get_template_at(store, name, depth) ==
    IF depth > RecursionLimit THEN RecursionError
    ELSE LET template == TemplatesGet(store, name) IN
         IF Truthy(template) /\ Truthy(template.base_template)
         THEN LET base == get_template_at(store, template.base_template.v, depth + 1) IN
              IF base = RecursionError THEN RecursionError
              ELSE IF Truthy(base) THEN merge_templates(base, template)
              ELSE template
         ELSE template

get_template(store, name) == get_template_at(store, name, 1)

\* The number of calls of get_template one lookup makes before it returns
\* or the interpreter gives up.
RECURSIVE calls_made(_, _, _)
calls_made(store, name, depth) ==
    IF depth > RecursionLimit THEN 0
    ELSE LET template == TemplatesGet(store, name) IN
         IF Truthy(template) /\ Truthy(template.base_template)
         THEN 1 + calls_made(store, template.base_template.v, depth + 1)
         ELSE 1

(***************************************************************************)
(* The template files a directory can hold.  The value of a field of       *)
(* template n is None, empty, or a non-empty value naming n and the field; *)
(* the selector sel rotates the three kinds over the six fields.           *)
(***************************************************************************)
FieldValue(name, i, sel) ==
    LET kind == (sel + i) % 3 IN
    IF kind = 0 THEN NoneVal
    ELSE IF i \in {3, 4}
         THEN (IF kind = 1 THEN DictVal(EmptyDict)
               ELSE DictVal([k \in {"v"} |-> StrVal(name \o "." \o ListFields[i])]))
         ELSE (IF kind = 1 THEN ListVal(<<>>)
               ELSE ListVal(<<StrVal(name \o "." \o ListFields[i])>>))

VariablesValues(name) ==
    {NoneVal} \cup
    {DictVal([k \in ks |-> StrVal(name \o "." \o k)]) :
        ks \in {{"k1"}, {"k1", "k2"}}}

BaseValues == {NoneVal} \cup {StrVal(n) : n \in TemplateNames}

TemplateFiles(name) ==
    {SceneTemplate(name, base, FieldValue(name, 1, sel), FieldValue(name, 2, sel),
                   FieldValue(name, 3, sel), FieldValue(name, 4, sel),
                   FieldValue(name, 5, sel), FieldValue(name, 6, sel), variables) :
        base \in BaseValues, sel \in 0..2, variables \in VariablesValues(name)}

\* A directory holds at most one file per template name; an absent name has no file.
StoreOf(fa, fb, fc) ==
    LET file == [n \in TemplateNames |-> IF n = "a" THEN fa ELSE IF n = "b" THEN fb ELSE fc]
    IN [n \in {m \in TemplateNames : file[m] # NoneVal} |-> file[n]]

Stores ==
    {StoreOf(fa, fb, fc) : fa \in TemplateFiles("a") \cup {NoneVal},
                           fb \in TemplateFiles("b") \cup {NoneVal},
                           fc \in TemplateFiles("c") \cup {NoneVal}}

InitTemplates ==
    /\ templates \in Stores
    /\ requested = ""
    /\ result = NoneVal
    /\ SubstIdle
    /\ ScatterIdle
    /\ SceneIdle
    /\ RestIdle

GetTemplate(name) ==
    /\ requested' = name
    /\ result' = get_template(templates, name)
    /\ UNCHANGED <<templates, substVars, scatterVars, sceneVars, restVars>>

NextTemplates == \E name \in TemplateNames : GetTemplate(name)

SpecTemplates == InitTemplates /\ [][NextTemplates]_vars

(***************************************************************************)
(* Template inheritance: claims                                            *)
(***************************************************************************)
MergedFields == {"objects", "lights", "camera", "environment", "animations", "patterns"}
KeysOf(x) == IF x.t = "dict" THEN DOMAIN x.v ELSE {}

\* The last call asked for a stored template that names a base.
RequestedChild ==
    /\ requested \in DOMAIN templates
    /\ Truthy(templates[requested].base_template)

ResolvedBase == get_template(templates, templates[requested].base_template.v)

RECURSIVE ChainMissing(_, _, _)
ChainMissing(store, name, seen) ==
    IF name \notin DOMAIN store THEN TRUE
    ELSE IF name \in seen \/ ~Truthy(store[name].base_template) THEN FALSE
    ELSE ChainMissing(store, store[name].base_template.v, seen \cup {name})

\* C10: get_template returns None whenever the requested name or one of its
\* ancestors along base_template is absent from the store.
C10_NullOnBrokenChain ==
    (requested # "" /\ ChainMissing(templates, requested, {})) => result = NoneVal

\* Walking the base_template references from name comes back to a name
\* already walked.
RECURSIVE ChainCyclic(_, _, _)
ChainCyclic(store, name, seen) ==
    IF name \in seen THEN TRUE
    ELSE IF name \notin DOMAIN store \/ ~Truthy(store[name].base_template) THEN FALSE
    ELSE ChainCyclic(store, store[name].base_template.v, seen \cup {name})

\* C11: a lookup whose base_template references form a cycle ends in an
\* error, and it ends at the repeat: it makes no more calls than the store
\* has templates, plus the one that meets the repeated name.
C11_CycleDetectedAtRepeat ==
    (requested # "" /\ ChainCyclic(templates, requested, {})) =>
       /\ result = RecursionError
       /\ calls_made(templates, requested, 1) <= Cardinality(DOMAIN templates) + 1

(***************************************************************************)
(* Scene composer (SceneGenerator).  ObjectDefinition, LightDefinition and *)
(* the other scene classes are the records the composer builds: each keeps *)
(* the keyword arguments the composer passes.                              *)
(***************************************************************************)
\* Longest architecture, decoration and interactive-object list of a location.
MaxElements == 2
\* Longest list of waypoints or torch positions.
MaxWaypoints == 2

\* UUID('00000000-0000-0000-0000-000000000000')
ZeroUUID == "00000000-0000-0000-0000-000000000000"


UUID(x) == [t |-> "UUID", v |-> x]
\* Vector3; y is kept in tenths of a unit (2.2 is 22), x and z in units.
Vector3(x, y, z) == [x |-> x, y |-> y, z |-> z]

\* ObjectDefinition(**kwargs): the attributes the composer reads, None or
\* False when the keyword is not given.
ObjectDefaults ==
    [t |-> "ObjectDefinition", name |-> "", geometry |-> NoneVal, material |-> EmptyDict,
     model_id |-> NoneVal, material_id |-> NoneVal, position |-> Vector3(0, 0, 0),
     animation |-> NoneVal, interactive |-> FALSE, interaction_data |-> NoneVal,
     instance_data |-> NoneVal]
ObjectDefinition(kwargs) ==
    [f \in DOMAIN ObjectDefaults |-> IF f \in DOMAIN kwargs THEN kwargs[f] ELSE ObjectDefaults[f]]

LightDefinition(type, position, cast_shadows, shadow_map_size) ==
    [t |-> "LightDefinition", type |-> type, position |-> position,
     cast_shadows |-> cast_shadows, shadow_map_size |-> shadow_map_size]

\* ObjectDefinition(**obj) and LightDefinition(**light) for the dicts of a template.
ObjectFromDict(d) ==
    ObjectDefinition([f \in (DOMAIN d.v) \cap {"model_id", "material_id"} |-> d.v[f]]
                     @@ [name |-> d.v["name"].v, geometry |-> [type |-> "template"]])
LightFromDict(d) == LightDefinition(d.v["type"].v, NoneVal, FALSE, 0)

CameraDefinition(type) == [t |-> "CameraDefinition", type |-> type]

\* f"{prefix}_{a}_{b}" and f"{prefix}_{i}"
Name2(prefix, a, b) == prefix \o "_" \o ToString(a) \o "_" \o ToString(b)
Name1(prefix, i) == prefix \o "_" \o ToString(i)

\* Outcome of a step that may raise: the new value, or the exception.
Ok(value) == [ok |-> TRUE, value |-> value]
Raise(exception) == [ok |-> FALSE, exception |-> exception]

\* quality_presets handed to the constructor.
quality_presets ==
    [low  |-> [shadows_enabled |-> FALSE, shadow_map_size |-> 512,
               ssao_enabled |-> FALSE, bloom_enabled |-> FALSE],
     high |-> [shadows_enabled |-> TRUE, shadow_map_size |-> 2048,
               ssao_enabled |-> TRUE, bloom_enabled |-> TRUE]]

\* The settings of a tier; a name outside the presets is an error.
get_quality_settings(quality_level) ==
    IF quality_level \in DOMAIN quality_presets
    THEN Ok(quality_presets[quality_level])
    ELSE Raise("ValueError")

get_post_processing(settings) ==
    (IF settings.ssao_enabled THEN <<[type |-> "ssao"]>> ELSE <<>>)
    \o (IF settings.bloom_enabled THEN <<[type |-> "bloom"]>> ELSE <<>>)

(* Terrain *)
ground ==
    ObjectDefinition([name |-> "ground", geometry |-> [type |-> "PlaneGeometry"]])

\* int(width * length / 25)
num_cracks(size) == (size.width * size.length) \div 25

crack_material(tid) ==
    [key \in {"map", "normalMap", "roughnessMap"} |-> UUID(tid)]

\* The crack decals; their random positions are the points at.
terrain_cracks(size, tid, at) ==
    [i \in 1..num_cracks(size) |->
        ObjectDefinition([name |-> Name1("crack_decal", i - 1),
                          geometry |-> [type |-> "PlaneGeometry"],
                          material |-> crack_material(tid),
                          position |-> Vector3(at[i][1], 0, at[i][2])])]

\* The instanced moss object; count is the number of points the scatter returned.
terrain_moss(tid, count) ==
    ObjectDefinition([name |-> "moss_patches",
                      geometry |-> [type |-> "InstancedMesh", instance_count |-> 100],
                      material |-> [key \in {"map", "normalMap"} |-> UUID(tid)],
                      instance_data |-> [positions |-> count, scales |-> 100,
                                         rotations |-> 100]])

(* Architecture *)
\* The wall of the segment from start to end, as written: atan2 is not a
\* name of the module (line 9 imports sin, cos, pi and sqrt only), so the
\* first segment raises NameError before any wall is built.
add_walls(objects, positions) ==
    IF Len(positions) - 1 > 0 THEN Raise("NameError") ELSE Ok(objects)

pillar(i, pos) ==
    ObjectDefinition([name |-> Name1("pillar", i),
                      geometry |-> [type |-> "CylinderGeometry"],
                      position |-> Vector3(pos[1], 20, pos[2])])

\* The pillars put in front of the objects already in the scene.
add_pillars_in_front(objects, positions) ==
    Ok([i \in 1..Len(positions) |-> pillar(i - 1, positions[i])] \o objects)

add_pillars(objects, positions) ==
    Ok(objects \o [i \in 1..Len(positions) |-> pillar(i - 1, positions[i])])

(* Decorations *)
\* _get_model_id: the placeholder id, whatever the type and style.
get_model_id(object_type) == UUID(ZeroUUID)

torch(pos) ==
    ObjectDefinition([name |-> Name2("torch", pos[1], pos[2]),
                      model_id |-> get_model_id("torch"),
                      position |-> Vector3(pos[1], 20, pos[2]),
                      animation |-> [type |-> "flame"]])
torch_light(pos) == LightDefinition("point", Vector3(pos[1], 22, pos[2]), TRUE, 512)
decoration_chest(pos) ==
    ObjectDefinition([name |-> Name2("chest", pos[1], pos[2]),
                      model_id |-> get_model_id("chest"),
                      position |-> Vector3(pos[1], 5, pos[2]),
                      interactive |-> TRUE])

\* decoration.get("positions", []) and decoration.get("position", [0, 0])
DecorationPositions(decoration) ==
    IF "positions" \in DOMAIN decoration THEN decoration.positions ELSE <<>>
DecorationPosition(decoration) ==
    IF "position" \in DOMAIN decoration THEN decoration.position ELSE <<0, 0>>

\* add_decoration with one light for a whole torch decoration.
add_decoration_one_light(sd, decoration) ==
    IF decoration.type = "torch"
    THEN LET positions == DecorationPositions(decoration) IN
         [sd EXCEPT
            !.objects = @ \o [i \in 1..Len(positions) |-> torch(positions[i])],
            !.lights = @ \o [i \in 1..Min(1, Len(positions)) |-> torch_light(positions[i])]]
    ELSE IF decoration.type = "chest"
    THEN [sd EXCEPT !.objects = Append(@, decoration_chest(DecorationPosition(decoration)))]
    ELSE sd

\* One pass of the loop of _add_decorations.
add_decoration(sd, decoration) ==
    IF decoration.type = "torch"
    THEN LET positions == DecorationPositions(decoration) IN
         [sd EXCEPT
            !.objects = @ \o [i \in 1..Len(positions) |-> torch(positions[i])],
            !.lights = @ \o [i \in 1..Len(positions) |-> torch_light(positions[i])]]
    ELSE IF decoration.type = "chest"
    THEN [sd EXCEPT !.objects = Append(@, decoration_chest(DecorationPosition(decoration)))]
    ELSE sd

(* Interactive objects *)
\* AnimationState; a transition without a "conditions" key has none to meet.
AnimationState(name, transitions) == [name |-> name, transitions |-> transitions]
Transition(target, conditions) == [target |-> target, conditions |-> conditions]

\* config.get("locked", False)
ConfigLocked(config) == IF "locked" \in DOMAIN config THEN config.locked ELSE FALSE

\* The chest states with the `open` transition left ungated.
chest_states_ungated ==
    <<AnimationState("closed", [open |-> Transition("opening", EmptyDict)]),
      AnimationState("opening", [complete |-> Transition("open", EmptyDict)]),
      AnimationState("open", [close |-> Transition("closed", EmptyDict)])>>

chest_states ==
    <<AnimationState("closed", [open |-> Transition("opening", [is_locked |-> FALSE])]),
      AnimationState("opening", [complete |-> Transition("open", EmptyDict)]),
      AnimationState("open", [close |-> Transition("closed", EmptyDict)])>>

interactive_chest(position, config) ==
    ObjectDefinition([name |-> Name2("chest", position[1], position[3]),
        model_id |-> get_model_id("chest"),
        position |-> Vector3(position[1], 10 * position[2], position[3]),
        interactive |-> TRUE,
        interaction_data |->
            [type |-> "chest",
             states |-> chest_states,
             current_state |-> "closed",
             variables |-> [is_locked |-> ConfigLocked(config)],
             events |-> [onClick |->
                <<[type |-> "check_condition", condition |-> "is_locked",
                   success |-> [type |-> "play_sound"],
                   failure |-> [type |-> "change_state", target |-> "opening"]]>>]]])

interactive_door(position, config) ==
    ObjectDefinition([name |-> Name2("door", position[1], position[3]),
        model_id |-> get_model_id("door"),
        position |-> Vector3(position[1], 10 * position[2], position[3]),
        interactive |-> TRUE,
        interaction_data |->
            [type |-> "door",
             states |->
                <<AnimationState("closed", [opening |-> Transition("open", EmptyDict)]),
                  AnimationState("open", [closing |-> Transition("closed", EmptyDict)])>>,
             current_state |-> "closed",
             variables |-> EmptyDict,
             events |-> [onClick |->
                <<[type |-> "toggle_state", states |-> <<"open", "closed">>]>>]]])

interactive_lever(position, config) ==
    ObjectDefinition([name |-> Name2("lever", position[1], position[3]),
        model_id |-> get_model_id("lever"),
        position |-> Vector3(position[1], 10 * position[2], position[3]),
        interactive |-> TRUE,
        interaction_data |->
            [type |-> "lever",
             states |->
                <<AnimationState("off", [activate |-> Transition("on", EmptyDict)]),
                  AnimationState("on", [deactivate |-> Transition("off", EmptyDict)])>>,
             current_state |-> "off",
             variables |-> EmptyDict,
             events |-> [onClick |->
                <<[type |-> "toggle_state", states |-> <<"on", "off">>]>>]]])

\* The button whose `down` state lists no transition.
interactive_button_latched(position, config) ==
    ObjectDefinition([name |-> Name2("button", position[1], position[3]),
        model_id |-> get_model_id("button"),
        position |-> Vector3(position[1], 10 * position[2], position[3]),
        interactive |-> TRUE,
        interaction_data |->
            [type |-> "button",
             states |->
                <<AnimationState("up", [press |-> Transition("down", EmptyDict)]),
                  AnimationState("down", EmptyDict)>>,
             current_state |-> "up",
             variables |-> EmptyDict,
             events |-> [onClick |->
                <<[type |-> "change_state", target |-> "down"],
                  [type |-> "trigger_event"],
                  [type |-> "play_sound"]>>]]])

interactive_button(position, config) ==
    ObjectDefinition([name |-> Name2("button", position[1], position[3]),
        model_id |-> get_model_id("button"),
        position |-> Vector3(position[1], 10 * position[2], position[3]),
        interactive |-> TRUE,
        interaction_data |->
            [type |-> "button",
             states |->
                <<AnimationState("up", [press |-> Transition("down", EmptyDict)]),
                  AnimationState("down", [release |-> Transition("up", EmptyDict)])>>,
             current_state |-> "up",
             variables |-> EmptyDict,
             events |-> [onClick |->
                <<[type |-> "change_state", target |-> "down"],
                  [type |-> "trigger_event"],
                  [type |-> "play_sound"]>>]]])

\* obj.get("position", [0, 0, 0])
InteractivePosition(obj) ==
    IF "position" \in DOMAIN obj THEN obj.position ELSE <<0, 0, 0>>

\* One pass of the first loop of _add_interactive_objects.
add_interactive_object(sd, obj) ==
    IF obj.type = "door"
    THEN [sd EXCEPT !.objects = Append(@, interactive_door(InteractivePosition(obj), obj))]
    ELSE IF obj.type = "lever"
    THEN [sd EXCEPT !.objects = Append(@, interactive_lever(InteractivePosition(obj), obj))]
    ELSE IF obj.type = "button"
    THEN [sd EXCEPT !.objects = Append(@, interactive_button(InteractivePosition(obj), obj))]
    ELSE IF obj.type = "chest"
    THEN [sd EXCEPT !.objects = Append(@, interactive_chest(InteractivePosition(obj), obj))]
    ELSE sd

(***************************************************************************)
(* The state machine of an instance, as the specification gives it: a      *)
(* transition is available only from a state that lists it, its conditions *)
(* gate it against the instance's variables, and firing it moves the       *)
(* current-state pointer to its target.                                    *)
(***************************************************************************)
CurrentState(idata) ==
    CHOOSE st \in {idata.states[i] : i \in 1..Len(idata.states)} :
        st.name = idata.current_state

ConditionsHold(conditions, variables) ==
    \A key \in DOMAIN conditions :
        key \in DOMAIN variables /\ variables[key] = conditions[key]

fire_transition(idata, transition_name) ==
    LET transitions == CurrentState(idata).transitions IN
    IF /\ transition_name \in DOMAIN transitions
       /\ ConditionsHold(transitions[transition_name].conditions, idata.variables)
    THEN [idata EXCEPT !.current_state = transitions[transition_name].target]
    ELSE idata

\* A requested change of state takes the listed transition that leads there.
change_state(idata, target) ==
    LET transitions == CurrentState(idata).transitions
        leading == {tn \in DOMAIN transitions : transitions[tn].target = target}
    IN IF leading = {} THEN idata
       ELSE fire_transition(idata, CHOOSE tn \in leading : TRUE)

RECURSIVE run_event(_, _)
run_event(idata, event) ==
    IF event.type = "check_condition"
    THEN (IF idata.variables[event.condition]
          THEN run_event(idata, event.success)
          ELSE run_event(idata, event.failure))
    ELSE IF event.type = "change_state"
    THEN change_state(idata, event.target)
    ELSE IF event.type = "toggle_state"
    THEN change_state(idata,
            IF idata.current_state = event.states[1] THEN event.states[2]
            ELSE event.states[1])
    ELSE idata

RECURSIVE run_events(_, _)
run_events(idata, events) ==
    IF events = <<>> THEN idata
    ELSE run_events(run_event(idata, Head(events)), Tail(events))

click(idata) == run_events(idata, idata.events.onClick)

(***************************************************************************)
(* generate_scene, one action per awaited call                             *)
(***************************************************************************)
\* Click events delivered to one returned scene.
MaxClicks == 3

Range(seq) == {seq[i] : i \in 1..Len(seq)}

\* location_data.get("architecture", {}).get("elements", []) and the like.
Elements(location) == location.elements
Decorations(location) == location.decorations
InteractiveObjects(location) == location.interactive_objects

\* `template.x or []` for a template list.
ListOrEmpty(value) == IF Truthy(value) THEN value.v ELSE <<>>

get_required_assets(sd) ==
    {sd.objects[i].model_id : i \in {j \in 1..Len(sd.objects) : Truthy(sd.objects[j].model_id)}}
    \cup {sd.objects[i].material_id :
             i \in {j \in 1..Len(sd.objects) : Truthy(sd.objects[j].material_id)}}
    \cup (IF /\ Truthy(sd.environment)
              /\ "map_id" \in DOMAIN sd.environment.v
              /\ Truthy(sd.environment.v["map_id"])
           THEN {sd.environment.v["map_id"]} ELSE {})

\* The exception leaves generate_scene as ValueError("Scene generation failed: ...").
Fail(exception) ==
    /\ scene_pc' = "failed"
    /\ scene_error' = exception
    /\ UNCHANGED <<sceneInputs, scene_template, quality_settings, scene_def, cursor,
                   response, clicks>>

\* Variant: the lookup result is passed on without the check of line 162.
ResolveTemplate_unchecked ==
    /\ scene_pc = "start"
    /\ scene_template' = get_template(templates, request.template_name)
    /\ scene_pc' = "quality"
    /\ UNCHANGED <<sceneInputs, quality_settings, scene_def, cursor, scene_error,
                   response, clicks>>
    /\ UNCHANGED <<templateVars, substVars, scatterVars, restVars>>

\* Lines 161-163.
ResolveTemplate ==
    /\ scene_pc = "start"
    /\ LET template == get_template(templates, request.template_name) IN
       IF template = RecursionError THEN Fail("RecursionError")
       ELSE IF ~Truthy(template) THEN Fail("Template not found")
       ELSE /\ scene_template' = template
            /\ scene_pc' = "quality"
            /\ UNCHANGED <<sceneInputs, quality_settings, scene_def, cursor, scene_error,
                           response, clicks>>
    /\ UNCHANGED <<templateVars, substVars, scatterVars, restVars>>

\* Line 166.
ResolveQuality ==
    /\ scene_pc = "quality"
    /\ LET settings == get_quality_settings(request.quality_level) IN
       IF ~settings.ok THEN Fail(settings.exception)
       ELSE /\ quality_settings' = settings.value
            /\ scene_pc' = "build"
            /\ UNCHANGED <<sceneInputs, scene_template, scene_def, cursor, scene_error,
                           response, clicks>>
    /\ UNCHANGED <<templateVars, substVars, scatterVars, restVars>>

\* Lines 206-220, for a template that invokes no pattern.
BuildSceneDefinition ==
    /\ scene_pc = "build"
    /\ scene_def' =
          [objects |-> <<>>,
           lights |-> [i \in 1..Len(ListOrEmpty(scene_template.lights)) |->
                          LightFromDict(ListOrEmpty(scene_template.lights)[i])],
           camera |-> CameraDefinition("perspective"),
           environment |-> scene_template.environment,
           post_processing |-> get_post_processing(quality_settings),
           interaction_system |-> NoneVal]
    /\ scene_pc' = "location"
    /\ UNCHANGED <<sceneInputs, scene_template, quality_settings, cursor, scene_error,
                   response, clicks>>
    /\ UNCHANGED <<templateVars, substVars, scatterVars, restVars>>

\* Lines 270-277: without location data _add_scene_objects returns at
\* once; with it the objects of the template are appended first.
AddSceneObjects ==
    /\ scene_pc = "location"
    /\ IF location_data = NoneVal
       THEN /\ scene_pc' = "apply_quality"
            /\ UNCHANGED scene_def
       ELSE /\ scene_def' = [scene_def EXCEPT !.objects =
                  @ \o [i \in 1..Len(ListOrEmpty(scene_template.objects)) |->
                           ObjectFromDict(ListOrEmpty(scene_template.objects)[i])]]
            /\ scene_pc' = "terrain"
    /\ UNCHANGED <<sceneInputs, scene_template, quality_settings, cursor, scene_error,
                   response, clicks>>
    /\ UNCHANGED <<templateVars, substVars, scatterVars, restVars>>

\* Points a crack decal can fall on, and numbers of points a scatter returns.
CrackPoints == {<<-1, 0>>, <<1, 1>>}
MossCounts == {1, MaxPoints}

RECURSIVE terrain_features(_, _, _, _, _)
terrain_features(features, size, tid, at, count) ==
    IF features = <<>> THEN <<>>
    ELSE (IF Head(features) = "cracks" THEN terrain_cracks(size, tid, at)
          ELSE IF Head(features) = "moss" THEN <<terrain_moss(tid, count)>>
          ELSE <<>>)
         \o terrain_features(Tail(features), size, tid, at, count)

\* Lines 460-500.
AddTerrain ==
    /\ scene_pc = "terrain"
    /\ \E at \in [1..num_cracks(location_data.size) -> CrackPoints], count \in MossCounts :
          scene_def' = [scene_def EXCEPT !.objects =
              Append(@, ground)
              \o terrain_features(location_data.terrain_features, location_data.size,
                                  texture_id, at, count)]
    /\ scene_pc' = "architecture"
    /\ cursor' = 1
    /\ UNCHANGED <<sceneInputs, scene_template, quality_settings, scene_error,
                   response, clicks>>
    /\ UNCHANGED <<templateVars, substVars, scatterVars, restVars>>

\* Lines 515-522, one element of the architecture.
AddArchitectureElement ==
    /\ scene_pc = "architecture"
    /\ cursor <= Len(Elements(location_data))
    /\ LET element == Elements(location_data)[cursor]
           outcome == IF element.type = "wall"
                      THEN add_walls(scene_def.objects, element.positions)
                      ELSE IF element.type = "pillar"
                      THEN add_pillars(scene_def.objects, element.positions)
                      ELSE Ok(scene_def.objects)
       IN IF ~outcome.ok THEN Fail(outcome.exception)
          ELSE /\ scene_def' = [scene_def EXCEPT !.objects = outcome.value]
               /\ cursor' = cursor + 1
               /\ UNCHANGED <<sceneInputs, scene_template, quality_settings, scene_pc,
                              scene_error, response, clicks>>
    /\ UNCHANGED <<templateVars, substVars, scatterVars, restVars>>

EndArchitecture ==
    /\ scene_pc = "architecture"
    /\ cursor > Len(Elements(location_data))
    /\ scene_pc' = "decorations"
    /\ cursor' = 1
    /\ UNCHANGED <<sceneInputs, scene_template, quality_settings, scene_def, scene_error,
                   response, clicks>>
    /\ UNCHANGED <<templateVars, substVars, scatterVars, restVars>>

\* Lines 535-579, one decoration.
AddDecoration ==
    /\ scene_pc = "decorations"
    /\ cursor <= Len(Decorations(location_data))
    /\ scene_def' = add_decoration(scene_def, Decorations(location_data)[cursor])
    /\ cursor' = cursor + 1
    /\ UNCHANGED <<sceneInputs, scene_template, quality_settings, scene_pc, scene_error,
                   response, clicks>>
    /\ UNCHANGED <<templateVars, substVars, scatterVars, restVars>>

\* Lines 592-607: the decorations are done, the interaction system is set up.
EndDecorations ==
    /\ scene_pc = "decorations"
    /\ cursor > Len(Decorations(location_data))
    /\ scene_def' = [scene_def EXCEPT !.interaction_system = [raycaster |-> TRUE]]
    /\ scene_pc' = "interactive"
    /\ cursor' = 1
    /\ UNCHANGED <<sceneInputs, scene_template, quality_settings, scene_error,
                   response, clicks>>
    /\ UNCHANGED <<templateVars, substVars, scatterVars, restVars>>

\* Lines 610-621, one interactive object.
AddInteractiveObject ==
    /\ scene_pc = "interactive"
    /\ cursor <= Len(InteractiveObjects(location_data))
    /\ scene_def' = add_interactive_object(scene_def, InteractiveObjects(location_data)[cursor])
    /\ cursor' = cursor + 1
    /\ UNCHANGED <<sceneInputs, scene_template, quality_settings, scene_pc, scene_error,
                   response, clicks>>
    /\ UNCHANGED <<templateVars, substVars, scatterVars, restVars>>

EndInteractiveObjects ==
    /\ scene_pc = "interactive"
    /\ cursor > Len(InteractiveObjects(location_data))
    /\ scene_pc' = "ambient"
    /\ UNCHANGED <<sceneInputs, scene_template, quality_settings, scene_def, cursor,
                   scene_error, response, clicks>>
    /\ UNCHANGED <<templateVars, substVars, scatterVars, restVars>>

RECURSIVE ambient_particles(_)
ambient_particles(particles) ==
    IF particles = <<>> THEN <<>>
    ELSE (IF Head(particles) = "dust" THEN <<[type |-> "particles", system |-> "dust"]>>
          ELSE <<>>)
         \o ambient_particles(Tail(particles))

RECURSIVE effect_particles(_)
effect_particles(particles) ==
    IF particles = <<>> THEN <<>>
    ELSE (IF Head(particles) = "dust" THEN <<[type |-> "particles", system |-> "dust"]>>
          ELSE IF Head(particles) = "embers"
          THEN <<[type |-> "particles", system |-> "embers"]>>
          ELSE <<>>)
         \o effect_particles(Tail(particles))

\* Lines 1036-1048.
AddAmbientLife ==
    /\ scene_pc = "ambient"
    /\ scene_def' = [scene_def EXCEPT !.post_processing =
                        @ \o ambient_particles(location_data.particles)]
    /\ scene_pc' = "effects"
    /\ UNCHANGED <<sceneInputs, scene_template, quality_settings, cursor, scene_error,
                   response, clicks>>
    /\ UNCHANGED <<templateVars, substVars, scatterVars, restVars>>

has_torches(location) ==
    \E i \in 1..Len(Decorations(location)) : Decorations(location)[i].type = "torch"

\* The stored template whose environment mapping the template returned by
\* get_template carries: `override.environment or base.environment` hands
\* on the mapping itself, not a copy.
RECURSIVE environment_owner(_, _)
environment_owner(store, name) ==
    LET template == store[name] IN
    IF /\ Truthy(template.base_template)
       /\ Truthy(get_template(store, template.base_template.v))
       /\ ~Truthy(template.environment)
    THEN environment_owner(store, template.base_template.v)
    ELSE name

\* scene_def.environment["fog"] = {...}
with_fog(environment, location_type) ==
    DictVal([key \in (DOMAIN environment.v) \cup {"fog"} |->
                IF key = "fog" THEN StrVal(location_type) ELSE environment.v[key]])

\* Lines 1061-1112: fog by location type (an item assignment, which a
\* missing environment does not support), volumetric light with torches,
\* particles.  The environment of the scene is the mapping the template
\* holds (line 210), so the assignment shows in the stored template too.
AddEnvironmentEffects ==
    /\ scene_pc = "effects"
    /\ IF location_data.type \in {"dungeon", "cave"} /\ scene_def.environment.t # "dict"
       THEN Fail("TypeError") /\ UNCHANGED templates
       ELSE /\ scene_def' =
                  [scene_def EXCEPT
                     !.environment =
                         IF location_data.type \in {"dungeon", "cave"}
                         THEN with_fog(@, location_data.type)
                         ELSE @,
                     !.post_processing =
                         @ \o (IF has_torches(location_data)
                               THEN <<[type |-> "volumetricLight"]>> ELSE <<>>)
                           \o effect_particles(location_data.particles)]
            /\ IF location_data.type \in {"dungeon", "cave"}
               THEN /\ scene_template' =
                          [scene_template EXCEPT
                              !.environment = with_fog(@, location_data.type)]
                    /\ templates' =
                          [templates EXCEPT
                              ![environment_owner(templates, request.template_name)]
                                  .environment = with_fog(@, location_data.type)]
               ELSE UNCHANGED <<scene_template, templates>>
            /\ scene_pc' = "apply_quality"
            /\ UNCHANGED <<sceneInputs, quality_settings, cursor,
                           scene_error, response, clicks>>
    /\ UNCHANGED <<requested, result, substVars, scatterVars, restVars>>

\* Lines 1457-1464.
ApplyQualitySettings ==
    /\ scene_pc = "apply_quality"
    /\ scene_def' =
          [scene_def EXCEPT
             !.lights = [i \in 1..Len(@) |->
                 IF @[i].type \in {"directional", "spot"}
                 THEN [@[i] EXCEPT !.cast_shadows = quality_settings.shadows_enabled,
                                   !.shadow_map_size = quality_settings.shadow_map_size]
                 ELSE @[i]],
             !.post_processing = get_post_processing(quality_settings)]
    /\ scene_pc' = "respond"
    /\ UNCHANGED <<sceneInputs, scene_template, quality_settings, cursor, scene_error,
                   response, clicks>>
    /\ UNCHANGED <<templateVars, substVars, scatterVars, restVars>>

\* Lines 176-183.
Respond ==
    /\ scene_pc = "respond"
    /\ response' = [t |-> "SceneResponse", scene_id |-> request.location_id,
                    assets_required |-> get_required_assets(scene_def)]
    /\ scene_pc' = "returned"
    /\ UNCHANGED <<sceneInputs, scene_template, quality_settings, scene_def, cursor,
                   scene_error, clicks>>
    /\ UNCHANGED <<templateVars, substVars, scatterVars, restVars>>

\* Objects of the returned scene that carry a state machine.
Instances ==
    IF scene_pc # "returned" THEN {}
    ELSE {i \in 1..Len(scene_def.objects) :
             scene_def.objects[i].interactive /\ scene_def.objects[i].interaction_data # NoneVal}

\* A click on instance i of the returned scene runs its onClick events.
Click(i) ==
    /\ scene_pc = "returned"
    /\ Len(clicks) < MaxClicks
    /\ clicks' = Append(clicks, i)
    /\ scene_def' = [scene_def EXCEPT !.objects[i].interaction_data = click(@)]
    /\ UNCHANGED <<sceneInputs, scene_template, quality_settings, cursor, scene_pc,
                   scene_error, response>>
    /\ UNCHANGED <<templateVars, substVars, scatterVars, restVars>>

\* A transition of instance i is requested by name (end of an animation, a
\* trigger of the game).
FireTransition(i, transition_name) ==
    /\ scene_pc = "returned"
    /\ scene_def' = [scene_def EXCEPT !.objects[i].interaction_data =
                        fire_transition(@, transition_name)]
    /\ scene_def' # scene_def
    /\ UNCHANGED <<sceneInputs, scene_template, quality_settings, cursor, scene_pc,
                   scene_error, response, clicks>>
    /\ UNCHANGED <<templateVars, substVars, scatterVars, restVars>>

TransitionNames ==
    {"open", "complete", "close", "opening", "closing", "activate", "deactivate", "press",
     "release"}

(***************************************************************************)
(* The requests, template directories and locations generate_scene is run  *)
(* on.  A location varies one layer at a time over a plain dungeon; the    *)
(* furnished hall has every layer at once.                                 *)
(***************************************************************************)
Path == <<<<0, 0>>, <<2, 0>>, <<2, 2>>, <<0, 2>>, <<4, 2>>>>

\* Waypoint lists: the prefixes of the path, and one that visits a point twice.
WaypointLists ==
    {SubSeq(Path, 1, n) : n \in 0..MaxWaypoints} \cup {<<Path[1], Path[1]>>}

ElementOptions ==
    {[type |-> ty, positions |-> w] : ty \in {"wall", "pillar"}, w \in WaypointLists}

DecorationOptions ==
    {[type |-> "torch", positions |-> w] : w \in WaypointLists}
    \cup {[type |-> "chest", position |-> Path[1]], [type |-> "chest"]}

InteractiveOptions ==
    {[type |-> "chest", position |-> <<0, 0, 0>>, locked |-> TRUE],
     [type |-> "chest", position |-> <<2, 0, 0>>],
     [type |-> "door", position |-> <<0, 0, 0>>]}

SeqsUpTo(S, n) == UNION {[1..m -> S] : m \in 0..n}

Location(type, features, elements, decorations, interactive, particles) ==
    [t |-> "dict", type |-> type, size |-> [width |-> 5, length |-> 5],
     terrain_features |-> features, elements |-> elements, decorations |-> decorations,
     interactive_objects |-> interactive, particles |-> particles]

PlainDungeon == Location("dungeon", <<>>, <<>>, <<>>, <<>>, <<>>)

FurnishedHall ==
    Location("hall", <<"cracks", "moss">>,
             <<[type |-> "pillar", positions |-> SubSeq(Path, 1, 2)]>>,
             <<[type |-> "torch", positions |-> SubSeq(Path, 1, 2)],
               [type |-> "chest", position |-> Path[3]]>>,
             <<[type |-> "chest", position |-> <<2, 0, 2>>, locked |-> TRUE],
               [type |-> "door", position |-> <<0, 0, 0>>]>>,
             <<"dust", "embers">>)

\* A room with one interactive object of every type, the chest unlocked.
ControlRoom ==
    Location("hall", <<>>, <<>>, <<>>,
             <<[type |-> "door", position |-> <<0, 0, 0>>],
               [type |-> "lever", position |-> <<2, 0, 0>>],
               [type |-> "button", position |-> <<0, 0, 2>>],
               [type |-> "chest", position |-> <<2, 0, 2>>]>>,
             <<>>)

\* The fixed location of _get_location_data, at a tenth of its size.
MockLocation ==
    Location("dungeon", <<"cracks", "moss">>,
             <<[type |-> "wall", positions |-> SubSeq(Path, 1, 2)],
               [type |-> "pillar", positions |-> SubSeq(Path, 1, 2)]>>,
             <<[type |-> "torch", positions |-> SubSeq(Path, 1, 2)],
               [type |-> "chest", position |-> Path[3]]>>,
             <<>>, <<"dust">>)

LocationSlices ==
    {[PlainDungeon EXCEPT !.elements = e] : e \in SeqsUpTo(ElementOptions, MaxElements)}
    \cup {[PlainDungeon EXCEPT !.decorations = d] :
             d \in SeqsUpTo(DecorationOptions, MaxElements)}
    \cup {[PlainDungeon EXCEPT !.interactive_objects = o] :
             o \in SeqsUpTo(InteractiveOptions, MaxElements)}
    \cup {[PlainDungeon EXCEPT !.terrain_features = f] :
             f \in {<<"cracks">>, <<"moss">>, <<"moss", "cracks">>}}
    \cup {FurnishedHall, ControlRoom, MockLocation, NoneVal}

TemplateObject(name) ==
    DictVal([key \in {"name", "material_id"} |->
                IF key = "name" THEN StrVal(name) ELSE UUID("material-1")])

SceneTemplateFile(name, base, objects, lights, environment) ==
    SceneTemplate(name, base, objects, lights, NoneVal, environment, NoneVal, NoneVal,
                  NoneVal)

AmbientLight == DictVal([key \in {"type"} |-> StrVal("ambient")])
SpotLight == DictVal([key \in {"type"} |-> StrVal("spot")])

DefaultStore ==
    StoreOf(SceneTemplateFile("a", NoneVal, ListVal(<<TemplateObject("base_object")>>),
                              ListVal(<<AmbientLight>>), DictVal(EmptyDict)),
            NoneVal, NoneVal)

SceneStores ==
    {DefaultStore}
    \cup {StoreOf(SceneTemplateFile("a", NoneVal, objects, lights, environment),
                  NoneVal, NoneVal) :
            objects \in {NoneVal, ListVal(<<TemplateObject("ground")>>),
                         ListVal(<<TemplateObject("pillar_0")>>)},
            lights \in {NoneVal, ListVal(<<AmbientLight, SpotLight>>)},
            environment \in {NoneVal,
                             DictVal([key \in {"map_id"} |-> UUID("environment-1")])}}
    \cup {StoreOf(SceneTemplateFile("a", StrVal("b"), NoneVal, NoneVal, NoneVal),
                  SceneTemplateFile("b", NoneVal, ListVal(<<TemplateObject("base_object")>>),
                                    ListVal(<<AmbientLight>>), DictVal(EmptyDict)),
                  NoneVal),
          StoreOf(SceneTemplateFile("a", StrVal("a"), NoneVal, NoneVal, NoneVal),
                  NoneVal, NoneVal)}

SceneRequest(template_name, quality_level) ==
    [t |-> "SceneRequest", location_id |-> "location-1", template_name |-> template_name,
     quality_level |-> quality_level]

DefaultRequest == SceneRequest("a", "high")
SceneRequests ==
    {SceneRequest(name, level) : name \in {"a", "c"}, level \in {"low", "high", "epic"}}

TextureIds == {ZeroUUID, "texture-1"}

\* The runs: every location on the default directory and request, and
\* every directory and request on the locations that have all layers or none.
SceneRuns ==
    {<<DefaultStore, DefaultRequest, "texture-1", location>> : location \in LocationSlices}
    \cup (SceneStores \X SceneRequests \X TextureIds
             \X {FurnishedHall, MockLocation, NoneVal})

InitScene ==
    /\ \E run \in SceneRuns :
          /\ templates = run[1]
          /\ request = run[2]
          /\ texture_id = run[3]
          /\ location_data = run[4]
    /\ requested = ""
    /\ result = NoneVal
    /\ scene_template = NoneVal
    /\ quality_settings = NoneVal
    /\ scene_def = NoneVal
    /\ cursor = 0
    /\ scene_pc = "start"
    /\ scene_error = ""
    /\ response = NoneVal
    /\ clicks = <<>>
    /\ SubstIdle
    /\ ScatterIdle
    /\ RestIdle

NextScene ==
    \/ ResolveTemplate
    \/ ResolveQuality
    \/ BuildSceneDefinition
    \/ AddSceneObjects
    \/ AddTerrain
    \/ AddArchitectureElement
    \/ EndArchitecture
    \/ AddDecoration
    \/ EndDecorations
    \/ AddInteractiveObject
    \/ EndInteractiveObjects
    \/ AddAmbientLife
    \/ AddEnvironmentEffects
    \/ ApplyQualitySettings
    \/ Respond
    \/ \E i \in Instances : Click(i)
    \/ \E i \in Instances, tn \in TransitionNames : FireTransition(i, tn)

SpecScene == InitScene /\ [][NextScene]_vars

(***************************************************************************)
(* Properties of the scene composer                                        *)
(***************************************************************************)
ChestData(i) == scene_def.objects[i].interaction_data

\* C4: a chest instance that is closed and whose variable is_locked is true
\* stays closed whatever event or transition request reaches it; when
\* is_locked is false, a click moves it to `opening`.
C4_ChestOpenGated ==
    [][\A i \in Instances :
          (ChestData(i).type = "chest" /\ ChestData(i).current_state = "closed") =>
             IF ChestData(i).variables.is_locked
             THEN scene_def'.objects[i].interaction_data.current_state = "closed"
             ELSE Click(i) =>
                     scene_def'.objects[i].interaction_data.current_state = "opening"]_vars

\* A locked chest clicked twice and still closed, next to an unlocked chest
\* that a click has moved to `opening`.
C4_Witness ==
    /\ scene_pc = "returned"
    /\ \E i \in Instances, j \in Instances :
          /\ ChestData(i).type = "chest" /\ ChestData(i).variables.is_locked
          /\ ChestData(i).current_state = "closed"
          /\ Cardinality({n \in 1..Len(clicks) : clicks[n] = i}) >= 2
          /\ ChestData(j).type = "chest" /\ ~ChestData(j).variables.is_locked
          /\ ChestData(j).current_state = "opening"
          /\ j \in Range(clicks)

\* C5: an architecture element with N >= 1 waypoints appends N-1 objects
\* when it is a wall and N objects, one at each waypoint in order, when it
\* is a pillar row; the objects already in the scene stay as they are.
C5_WallAndPillarCounts ==
    [][(scene_pc = "architecture" /\ cursor <= Len(Elements(location_data))
        /\ Len(Elements(location_data)[cursor].positions) >= 1) =>
         LET element == Elements(location_data)[cursor]
             N == Len(element.positions)
             before == Len(scene_def.objects)
             added == IF element.type = "wall" THEN N - 1 ELSE N
         IN /\ Len(scene_def'.objects) = before + added
            /\ SubSeq(scene_def'.objects, 1, before) = scene_def.objects
            /\ element.type = "pillar" =>
                  \A n \in 1..N :
                     /\ scene_def'.objects[before + n].position.x = element.positions[n][1]
                     /\ scene_def'.objects[before + n].position.z = element.positions[n][2]]_vars

\* C6: with no location data, an existing template that has objects and
\* lights, and a known quality tier, generate_scene does not fail and the
\* scene it returns has a camera, lights and objects.
C6_NullLocationDegradesGracefully ==
    (/\ location_data = NoneVal
     /\ scene_pc \in {"failed", "returned"}
     /\ scene_template # NoneVal
     /\ Truthy(scene_template.objects)
     /\ Truthy(scene_template.lights)
     /\ request.quality_level \in DOMAIN quality_presets)
    => /\ scene_pc = "returned"
       /\ scene_def.camera # NoneVal
       /\ scene_def.lights # <<>>
       /\ scene_def.objects # <<>>

\* C7: once the terrain, architecture, decoration and interactive layers
\* have run, no two objects of the scene have the same name.
C7_UniqueObjectNames ==
    scene_pc \in {"ambient", "effects", "apply_quality", "respond", "returned"} =>
       (scene_def.objects = <<>>
        \/ \A i \in 1..Len(scene_def.objects), j \in 1..Len(scene_def.objects) :
              scene_def.objects[i].name = scene_def.objects[j].name => i = j)

\* The identifiers objects refer to: model ids, material ids, and the
\* texture ids in the maps of their materials.
ReferencedAssets(objects) ==
    {objects[i].model_id : i \in {j \in 1..Len(objects) : objects[j].model_id # NoneVal}}
    \cup {objects[i].material_id :
             i \in {j \in 1..Len(objects) : objects[j].material_id # NoneVal}}
    \cup UNION {{objects[i].material[key] : key \in DOMAIN objects[i].material} :
                   i \in 1..Len(objects)}

\* C8: assets_required of the response is exactly the set of identifiers
\* the objects of the scene refer to, texture ids of material maps included.
C8_RequiredAssetsAreReferencedAssets ==
    scene_pc = "returned" => response.assets_required = ReferencedAssets(scene_def.objects)

IsTorch(object) == object.animation # NoneVal /\ object.animation.type = "flame"
AppendedBy(before, after) == SubSeq(after, Len(before) + 1, Len(after))

\* C9: a pass of the decoration layer appends as many lights as torches;
\* the n-th appended light is a point light at the x and z of the n-th
\* appended torch, and a decoration that is not a torch appends no light.
C9_OneLightPerTorch ==
    [][(scene_pc = "decorations" /\ cursor <= Len(Decorations(location_data))) =>
         LET torches == SelectSeq(AppendedBy(scene_def.objects, scene_def'.objects), IsTorch)
             new_lights == AppendedBy(scene_def.lights, scene_def'.lights)
         IN /\ Len(new_lights) = Len(torches)
            /\ \A n \in 1..Len(new_lights) :
                  /\ new_lights[n].type = "point"
                  /\ new_lights[n].position.x = torches[n].position.x
                  /\ new_lights[n].position.z = torches[n].position.z
            /\ Decorations(location_data)[cursor].type # "torch" => new_lights = <<>>]_vars

\* The layer is through a decoration of two torches and a chest: two point
\* lights, and the chest in the scene.
C9_Witness ==
    /\ scene_pc = "decorations"
    /\ cursor = 3
    /\ Decorations(location_data)[1].type = "torch"
    /\ Len(Decorations(location_data)[1].positions) = 2
    /\ Decorations(location_data)[2].type = "chest"
    /\ Len(SelectSeq(scene_def.objects, IsTorch)) = 2
    /\ Len(scene_def.lights) = Len(ListOrEmpty(scene_template.lights)) + 2

(***************************************************************************)
(* Animation system (AnimationSystem): the registries of sequences and     *)
(* chains, and the chain controller of the code it emits.                  *)
(***************************************************************************)
\* Longest animation list of a sequence.
MaxAnimations == 2
\* Longest stage list of a chain.
MaxStages == 3

AnimationSequence(name, animations, loop) ==
    [t |-> "AnimationSequence", name |-> name, animations |-> animations, loop |-> loop]
AnimationChain(name, stages, parallel) ==
    [t |-> "AnimationChain", name |-> name, stages |-> stages, parallel |-> parallel]

\* create_sequence: the sequence is built and stored under its name.
create_sequence(registry, name, animations, loop) ==
    [key \in (DOMAIN registry) \cup {name} |->
        IF key = name THEN AnimationSequence(name, animations, loop) ELSE registry[key]]

\* create_chain: the chain is built and stored under its name.
create_chain(registry, name, stages, parallel) ==
    [key \in (DOMAIN registry) \cup {name} |->
        IF key = name THEN AnimationChain(name, stages, parallel) ELSE registry[key]]

\* The states handed to create_sequence: two that name each other, one
\* without transitions, one whose transition names a state nobody defines.
AnimationStates ==
    {AnimationState("idle", [go |-> Transition("open", EmptyDict)]),
     AnimationState("open", [back |-> Transition("idle", EmptyDict)]),
     AnimationState("open", EmptyDict),
     AnimationState("idle", [go |-> Transition("gone", EmptyDict)])}

\* The stages handed to create_chain: a reference to a sequence, an inline
\* state with conditions, an inline state whose transition has no target state.
StageOptions ==
    {[animations |-> <<StrVal("s1")>>],
     [animations |-> <<AnimationState("idle", EmptyDict)>>, conditions |-> [ready |-> TRUE]],
     [animations |-> <<AnimationState("idle", [go |-> Transition("gone", EmptyDict)])>>]}

SequenceNames == {"s1"}
ChainNames == {"c1"}

InitAnimations ==
    /\ AnimIdle
    /\ TemplatesIdle
    /\ SubstIdle
    /\ ScatterIdle
    /\ SceneIdle
    /\ PatternIdle
    /\ ServiceIdle
    /\ LoadIdle
    /\ TimelineIdle

CreateSequence(name, animations, loop) ==
    /\ sequences' = create_sequence(sequences, name, animations, loop)
    /\ UNCHANGED <<chains, controller, playing, conditions_met>>
    /\ UNCHANGED <<templateVars, substVars, scatterVars, sceneVars, patternVars,
                   serviceVars, loadVars, timelineVars>>

CreateChain(name, stages, parallel) ==
    /\ chains' = create_chain(chains, name, stages, parallel)
    /\ UNCHANGED <<sequences, controller, playing, conditions_met>>
    /\ UNCHANGED <<templateVars, substVars, scatterVars, sceneVars, patternVars,
                   serviceVars, loadVars, timelineVars>>

NextAnimations ==
    \/ \E name \in SequenceNames, animations \in SeqsUpTo(AnimationStates, MaxAnimations),
          loop \in BOOLEAN : CreateSequence(name, animations, loop)
    \/ \E name \in ChainNames, stages \in SeqsUpTo(StageOptions, MaxStages),
          parallel \in BOOLEAN : CreateChain(name, stages, parallel)

SpecAnimations == InitAnimations /\ [][NextAnimations]_vars

(* The timeline positions of _generate_sequence_code *)
\* Largest keyframe time.
MaxKeyTime == 2
\* Longest keyframe list of a state.
MaxKeyframes == 3
\* Largest transition_time of a sequence.
MaxTransitionTime == 1

\* An AnimationState with keyframes at the given times.
KeyframedState(name, times) ==
    [t |-> "AnimationState", name |-> name,
     keyframes |-> [k \in 1..Len(times) |-> [time |-> times[k]]]]

\* An AnimationSequence with its transition_time.
TimedSequence(name, animations, transition_time) ==
    [t |-> "AnimationSequence", name |-> name, animations |-> animations,
     transition_time |-> transition_time]

\* The loop over anim.keyframes: one .to call per keyframe, placed at
\* total_time, which then grows by keyframe.time.
RECURSIVE keyframe_calls(_, _, _)
keyframe_calls(keyframes, k, acc) ==
    IF k > Len(keyframes) THEN acc
    ELSE keyframe_calls(keyframes, k + 1,
            [code_parts |-> Append(acc.code_parts,
                                   [duration |-> keyframes[k].time, position |-> acc.total_time]),
             total_time |-> acc.total_time + keyframes[k].time])

\* sum(k.time for a in anim.animations if isinstance(a, AnimationState)
\*     for k in a.keyframes)
RECURSIVE nested_keyframe_time(_, _)
nested_keyframe_time(animations, i) ==
    IF i > Len(animations) THEN 0
    ELSE (IF animations[i].t = "AnimationState"
          THEN keyframe_calls(animations[i].keyframes, 1,
                              [code_parts |-> <<>>, total_time |-> 0]).total_time
          ELSE 0)
         + nested_keyframe_time(animations, i + 1)

\* _generate_sequence_code from element i on: the .to calls emitted and the
\* value total_time ends with.
RECURSIVE generate_sequence_code(_, _, _)
generate_sequence_code(sequence, i, acc) ==
    IF i > Len(sequence.animations) THEN acc
    ELSE LET anim == sequence.animations[i]
             added ==
                 IF anim.t = "AnimationState"
                 THEN keyframe_calls(anim.keyframes, 1, acc)
                 ELSE [code_parts |->
                          Append(acc.code_parts,
                                 [nested |-> generate_sequence_code(
                                     anim, 1, [code_parts |-> <<>>, total_time |-> 0]).code_parts]),
                       total_time |-> acc.total_time + nested_keyframe_time(anim.animations, 1)]
         IN generate_sequence_code(sequence, i + 1,
                [code_parts |-> added.code_parts,
                 total_time |-> IF i < Len(sequence.animations)
                                THEN added.total_time + sequence.transition_time
                                ELSE added.total_time])

\* Keyframe lists with increasing times.
KeyframeTimes ==
    {times \in SeqsUpTo(0..MaxKeyTime, MaxKeyframes) :
        /\ Len(times) >= 1
        /\ \A k \in 1..(Len(times) - 1) : times[k] < times[k + 1]}

\* The elements of a sequence: states, and one nested sequence of two states.
SequenceElements ==
    {KeyframedState("state", times) : times \in KeyframeTimes}
    \cup {TimedSequence("inner", <<KeyframedState("state", <<0, 1>>),
                                   KeyframedState("state", <<1, 2>>)>>, 1)}

InitTimeline ==
    /\ sequence_arg \in {TimedSequence("s1", animations, transition_time) :
                            animations \in SeqsUpTo(SequenceElements, MaxAnimations),
                            transition_time \in 0..MaxTransitionTime}
    /\ sequence_code = NoneVal
    /\ TemplatesIdle
    /\ SubstIdle
    /\ ScatterIdle
    /\ SceneIdle
    /\ AnimIdle
    /\ PatternIdle
    /\ ServiceIdle
    /\ LoadIdle

\* _generate_sequence_code(sequence, object_name)
GenerateSequenceCode ==
    /\ sequence_code = NoneVal
    /\ sequence_code' = [t |-> "code"] @@
                        generate_sequence_code(sequence_arg, 1,
                                               [code_parts |-> <<>>, total_time |-> 0])
    /\ UNCHANGED sequence_arg
    /\ UNCHANGED <<templateVars, substVars, scatterVars, sceneVars, animVars, patternVars,
                   serviceVars, loadVars>>

NextTimeline == GenerateSequenceCode

SpecTimeline == InitTimeline /\ [][NextTimeline]_vars

\* Last keyframe time minus first keyframe time.
KeyframeSpan(state) == state.keyframes[Len(state.keyframes)].time - state.keyframes[1].time

RECURSIVE SpanSum(_, _)
SpanSum(animations, i) ==
    IF i > Len(animations) THEN 0
    ELSE KeyframeSpan(animations[i]) + SpanSum(animations, i + 1)

\* C28: the total time computed for a sequence of states is the sum of the
\* states' keyframe spans (last keyframe time minus first) plus
\* transition_time once between each pair of consecutive elements.
C28_TotalTimeIsSpansPlusTransitions ==
    (/\ sequence_code # NoneVal
     /\ \A i \in 1..Len(sequence_arg.animations) :
            sequence_arg.animations[i].t = "AnimationState")
    => sequence_code.total_time =
           SpanSum(sequence_arg.animations, 1)
           + (IF Len(sequence_arg.animations) = 0 THEN 0
              ELSE (Len(sequence_arg.animations) - 1) * sequence_arg.transition_time)

(* The chain controller of _generate_chain_code *)
\* A property the emitted stage object does not have.
Undefined == [t |-> "undefined"]

\* chain_controller that starts at the second stage.
chain_controller_from_one(chain) ==
    [name |-> chain.name,
     stages |-> [i \in 1..Len(chain.stages) |->
                    [timeline |-> i - 1,
                     conditions |-> IF "conditions" \in DOMAIN chain.stages[i]
                                    THEN chain.stages[i].conditions ELSE Undefined]],
     currentStage |-> 1,
     parallel |-> chain.parallel]

\* The controller object and the stage objects pushed on it.
chain_controller(chain) ==
    [name |-> chain.name,
     stages |-> [i \in 1..Len(chain.stages) |->
                    [timeline |-> i - 1,
                     conditions |-> IF "conditions" \in DOMAIN chain.stages[i]
                                    THEN chain.stages[i].conditions ELSE Undefined]],
     currentStage |-> 0,
     parallel |-> chain.parallel]

\* controller.stages[controller.currentStage], undefined past the end.
current_stage_object(ctl) ==
    IF ctl.currentStage < Len(ctl.stages) THEN ctl.stages[ctl.currentStage + 1] ELSE Undefined

\* update_chain that moves on to the next stage in parallel mode too.
update_chain_always_advance(ctl, playing_now, met) ==
    IF current_stage_object(ctl) # Undefined /\ met[ctl.currentStage + 1]
    THEN [controller |-> [ctl EXCEPT !.currentStage = @ + 1],
          playing |-> playing_now \cup {ctl.currentStage}]
    ELSE [controller |-> ctl, playing |-> playing_now]

\* update<chain>Chain as emitted; met is what checkConditions returns.
update_chain(ctl, playing_now, met) ==
    IF current_stage_object(ctl) # Undefined /\ met[ctl.currentStage + 1]
    THEN [controller |-> IF ~ctl.parallel
                         THEN [ctl EXCEPT !.currentStage = @ + 1] ELSE ctl,
          playing |-> playing_now \cup {ctl.currentStage}]
    ELSE [controller |-> ctl, playing |-> playing_now]

\* The chains a controller is emitted for.
ChainOptions ==
    {AnimationChain(name, stages, parallel) :
        name \in ChainNames, stages \in SeqsUpTo(StageOptions, MaxStages),
        parallel \in BOOLEAN}

InitChain ==
    /\ sequences = EmptyDict
    /\ \E chain \in ChainOptions : chains = create_chain(EmptyDict, chain.name, chain.stages,
                                                         chain.parallel)
    /\ controller = NoneVal
    /\ playing = {}
    /\ conditions_met = <<>>
    /\ TemplatesIdle
    /\ SubstIdle
    /\ ScatterIdle
    /\ SceneIdle
    /\ PatternIdle
    /\ ServiceIdle
    /\ LoadIdle
    /\ TimelineIdle

\* The emitted code is loaded: the controller exists, no timeline plays.
GenerateChainCode(name) ==
    /\ controller = NoneVal
    /\ name \in DOMAIN chains
    /\ controller' = chain_controller(chains[name])
    /\ playing' = {}
    /\ conditions_met' \in [1..Len(chains[name].stages) -> BOOLEAN]
    /\ UNCHANGED <<sequences, chains>>
    /\ UNCHANGED <<templateVars, substVars, scatterVars, sceneVars, patternVars,
                   serviceVars, loadVars, timelineVars>>

\* One call of update<chain>Chain.
Tick ==
    /\ controller # NoneVal
    /\ LET after == update_chain(controller, playing, conditions_met) IN
          /\ controller' = after.controller
          /\ playing' = after.playing
    /\ UNCHANGED <<sequences, chains, conditions_met>>
    /\ UNCHANGED <<templateVars, substVars, scatterVars, sceneVars, patternVars,
                   serviceVars, loadVars, timelineVars>>

\* The game state changes what checkConditions returns for a stage.
ConditionsChange(i) ==
    /\ controller # NoneVal
    /\ conditions_met' = [conditions_met EXCEPT ![i] = ~@]
    /\ UNCHANGED <<sequences, chains, controller, playing>>
    /\ UNCHANGED <<templateVars, substVars, scatterVars, sceneVars, patternVars,
                   serviceVars, loadVars, timelineVars>>

\* The timeline of a stage reaches its end.
TimelineEnds(stage) ==
    /\ stage \in playing
    /\ playing' = playing \ {stage}
    /\ UNCHANGED <<sequences, chains, controller, conditions_met>>
    /\ UNCHANGED <<templateVars, substVars, scatterVars, sceneVars, patternVars,
                   serviceVars, loadVars, timelineVars>>

NextChain ==
    \/ \E name \in ChainNames : GenerateChainCode(name)
    \/ Tick
    \/ \E i \in DOMAIN conditions_met : ConditionsChange(i)
    \/ \E stage \in playing : TimelineEnds(stage)

SpecChain == InitChain /\ [][NextChain]_vars

\* The caller keeps ticking.
SpecChainFair == SpecChain /\ WF_vars(Tick)

(***************************************************************************)
(* Properties of the animation system                                      *)
(***************************************************************************)
\* The stage at current_stage exists, its conditions hold, and the chain is
\* not parallel.
Advancing ==
    /\ ~controller.parallel
    /\ controller.currentStage < Len(controller.stages)
    /\ conditions_met[controller.currentStage + 1]

\* C12: a tick moves current_stage only for a non-parallel chain whose
\* stage at current_stage exists with conditions that hold; it then plays
\* that stage and adds exactly one to current_stage.  With false conditions
\* or a parallel chain current_stage stays.
C12_TickAdvancesOnlySequentially ==
    [][controller # NoneVal =>
         /\ (Tick /\ Advancing) =>
               /\ controller'.currentStage = controller.currentStage + 1
               /\ controller.currentStage \in playing'
         /\ ~Advancing => controller'.currentStage = controller.currentStage]_vars

\* A non-parallel chain that ticks have taken past its first stage, now
\* held back by the false conditions of its second stage.
C12_Witness ==
    /\ controller # NoneVal
    /\ ~controller.parallel
    /\ Len(controller.stages) >= 2
    /\ controller.currentStage = 1
    /\ 0 \in playing
    /\ ~conditions_met[2]

\* The controller is that of a non-parallel chain.
Sequential == controller # NoneVal /\ ~controller.parallel

\* C29: for a non-parallel chain current_stage stays within 0..n and starts
\* at 0; every step either leaves the controller alone and starts no
\* timeline, or plays exactly the stage at current_stage and adds one to
\* current_stage, so that stages are played in index order, none skipped
\* and none twice; once current_stage is n nothing is played or changed.
C29_SequentialChainInOrder ==
    /\ [](Sequential => controller.currentStage \in 0..Len(controller.stages))
    /\ [][(controller = NoneVal /\ Sequential') =>
             (controller'.currentStage = 0 /\ playing' = {})]_vars
    /\ [][Sequential =>
             \/ (controller' = controller /\ playing' \subseteq playing)
             \/ /\ controller.currentStage < Len(controller.stages)
                /\ conditions_met[controller.currentStage + 1]
                /\ controller' = [controller EXCEPT !.currentStage = @ + 1]
                /\ playing' = playing \cup {controller.currentStage}]_vars
    /\ [][(Sequential /\ controller.currentStage = Len(controller.stages)) =>
             (controller' = controller /\ playing' \subseteq playing)]_vars

\* A non-parallel chain of three or more stages that ticks have taken
\* through all of them, the last one still playing.
C29_Witness ==
    /\ Sequential
    /\ Len(controller.stages) >= 3
    /\ controller.currentStage = Len(controller.stages)
    /\ (Len(controller.stages) - 1) \in playing

\* The controller is that of a parallel chain of two or more stages and
\* checkConditions holds for all of them.
ParallelAllMet ==
    /\ controller # NoneVal
    /\ controller.parallel
    /\ Len(controller.stages) >= 2
    /\ \A i \in DOMAIN conditions_met : conditions_met[i]

\* A stage other than the first plays while an earlier one plays.
StagesOverlap == \E i \in playing, j \in playing : j < i

\* C13: when the conditions of the stages of a parallel chain stay true,
\* ticking leads to a stage other than the one at index 0 playing while an
\* earlier stage still plays.
C13_ParallelStagesOverlap == (<>[]ParallelAllMet) => <>StagesOverlap

\* The animation states among the entries of a list.
StatesAmong(entries) ==
    {entries[i] : i \in {j \in 1..Len(entries) : "transitions" \in DOMAIN entries[j]}}

\* Every transition of the states leads to one of the states.
TargetsDefined(states) ==
    \A st \in states : \A tn \in DOMAIN st.transitions :
        st.transitions[tn].target \in {other.name : other \in states}

\* The inline states of all stages of a chain.
ChainStates(chain) ==
    UNION {StatesAmong(chain.stages[i].animations) : i \in 1..Len(chain.stages)}

\* C14: no sequence and no chain is registered with a state whose
\* transition table names a state that is not among the states supplied.
C14_RegisteredTargetsDefined ==
    /\ \A name \in DOMAIN sequences : TargetsDefined(StatesAmong(sequences[name].animations))
    /\ \A name \in DOMAIN chains : TargetsDefined(ChainStates(chains[name]))

(***************************************************************************)
(* Pattern library (TemplateManager.apply_pattern)                         *)
(***************************************************************************)
\* apply_pattern calls made on one scene.
MaxPatternCalls == 2

Axes == {"x", "y", "z"}

\* {"x": n, "y": n, "z": n}
UniformVector(n) == DictVal([axis \in Axes |-> IntVal(n)])

\* d.get(key, default) on a dict value.
DictGet(d, key, default) == IF key \in DOMAIN d.v THEN d.v[key] ELSE default

\* d[key] = value on a dict value.
DictSet(d, key, value) ==
    DictVal([k \in (DOMAIN d.v) \cup {key} |-> IF k = key THEN value ELSE d.v[k]])

\* One `if group in transform` block of _apply_transform: the components
\* of the object (or the unit vector when it has none) are combined with
\* those of the transform, a missing transform axis counting as the unit.
\* A missing object axis is a KeyError, a string component a TypeError.
transform_group(obj_def, transform, group, unit, multiply) ==
    IF group \notin DOMAIN transform.v THEN Ok(obj_def)
    ELSE LET current == DictGet(obj_def, group, UniformVector(unit))
             by == transform.v[group]
         IN IF \E axis \in Axes : axis \notin DOMAIN current.v
            THEN Raise("KeyError")
            ELSE IF \E axis \in Axes :
                       current.v[axis].t # "int" \/ DictGet(by, axis, IntVal(unit)).t # "int"
            THEN Raise("TypeError")
            ELSE Ok(DictSet(obj_def, group,
                    DictVal([axis \in Axes |->
                       IF multiply
                       THEN IntVal(current.v[axis].v * DictGet(by, axis, IntVal(unit)).v)
                       ELSE IntVal(current.v[axis].v + DictGet(by, axis, IntVal(unit)).v)])))

\* _apply_transform with scale composed by addition.
apply_transform_scale_added(obj_def, transform) ==
    LET positioned == transform_group(obj_def, transform, "position", 0, FALSE) IN
    IF ~positioned.ok THEN positioned
    ELSE LET rotated == transform_group(positioned.value, transform, "rotation", 0, FALSE) IN
         IF ~rotated.ok THEN rotated
         ELSE transform_group(rotated.value, transform, "scale", 1, FALSE)

apply_transform(obj_def, transform) ==
    LET positioned == transform_group(obj_def, transform, "position", 0, FALSE) IN
    IF ~positioned.ok THEN positioned
    ELSE LET rotated == transform_group(positioned.value, transform, "rotation", 0, FALSE) IN
         IF ~rotated.ok THEN rotated
         ELSE transform_group(rotated.value, transform, "scale", 1, TRUE)

\* ObjectDefinition(**obj_def): the keyword arguments, and no attribute
\* `animations` until a pattern sets one.
ObjectFromKwargs(obj_def) ==
    [t |-> "ObjectDefinition", kwargs |-> obj_def, animations |-> NoneVal]

\* obj.name
ObjectName(object) == DictGet(object.kwargs, "name", NoneVal)

\* The loop of _apply_object_pattern from the objects still to add: the
\* scene objects so far, and the exception that ended the loop if any.
RECURSIVE apply_object_pattern(_, _, _)
apply_object_pattern(scene_objects, objects, params) ==
    IF objects = <<>> THEN Ok(scene_objects)
    ELSE LET obj_def == substitute_parameters(Head(objects), params)
             transform == ParametersGet(params, "transform", DictVal(EmptyDict))
             transformed == IF Truthy(transform) THEN apply_transform(obj_def, transform)
                            ELSE Ok(obj_def)
         IN IF ~transformed.ok
            THEN [ok |-> FALSE, exception |-> transformed.exception, value |-> scene_objects]
            ELSE apply_object_pattern(Append(scene_objects, ObjectFromKwargs(transformed.value)),
                                      Tail(objects), params)

\* Variant: the last object of that name is the one served.
FirstNamed_last(scene_objects, target) ==
    LET named == {i \in 1..Len(scene_objects) : ObjectName(scene_objects[i]) = target}
    IN IF named = {} THEN 0 ELSE CHOOSE i \in named : \A j \in named : i >= j

\* next((o for o in scene_def.objects if o.name == target), None): the
\* index of the first object of that name, 0 when there is none.
FirstNamed(scene_objects, target) ==
    LET named == {i \in 1..Len(scene_objects) : ObjectName(scene_objects[i]) = target}
    IN IF named = {} THEN 0 ELSE CHOOSE i \in named : \A j \in named : i <= j

\* The animations of the pattern, each parameter-substituted.
processed_animations(animations, params) ==
    [i \in 1..Len(animations) |-> substitute_parameters(animations[i], params)]

\* The loop of _apply_animation_pattern from the targets still to serve.
RECURSIVE apply_animation_pattern(_, _, _, _)
apply_animation_pattern(scene_objects, animations, targets, params) ==
    IF targets = <<>> THEN scene_objects
    ELSE LET at == FirstNamed(scene_objects, Head(targets)) IN
         apply_animation_pattern(
            IF at = 0 THEN scene_objects
            ELSE [scene_objects EXCEPT ![at].animations =
                     ListVal(ListOrEmpty(@) \o processed_animations(animations, params))],
            animations, Tail(targets), params)

\* pattern.get(key, [])
PatternList(pattern, key) == IF key \in DOMAIN pattern THEN pattern[key] ELSE <<>>

\* apply_pattern that treats an unknown pattern as an empty object.
apply_pattern_unknown_as_object(library, scene, pattern_name, params) ==
    IF pattern_name \notin DOMAIN library
    THEN [scene |-> [scene EXCEPT !.objects = Append(@, ObjectFromKwargs(DictVal(EmptyDict)))],
          log |-> ""]
    ELSE [scene |-> scene, log |-> ""]

\* apply_pattern: the scene after the call and what the call logged.
apply_pattern(library, scene, pattern_name, params) ==
    IF pattern_name \notin DOMAIN library
    THEN [scene |-> scene, log |-> "warning: Pattern not found"]
    ELSE LET pattern == library[pattern_name] IN
         IF pattern.type = "object_group"
         THEN LET outcome == apply_object_pattern(scene.objects,
                                                  PatternList(pattern, "objects"), params)
              IN [scene |-> [scene EXCEPT !.objects = outcome.value],
                  log |-> IF outcome.ok THEN "" ELSE "error: Failed to apply pattern"]
         ELSE IF pattern.type = "animation_sequence"
         THEN [scene |-> [scene EXCEPT !.objects =
                            apply_animation_pattern(@, PatternList(pattern, "animations"),
                               ListOrEmpty(ParametersGet(params, "targets", ListVal(<<>>))),
                               params)],
               log |-> ""]
         ELSE [scene |-> scene, log |-> ""]

\* A dict value from a record.
Dict(record) == DictVal(record)

\* The patterns of the directory: the pillar group and the door animation
\* of the tests, and a group of two objects, one without any transform
\* component.
PatternLibrary ==
    [pillar_group |->
        [type |-> "object_group", name |-> "pillar_group",
         objects |-> <<Dict([name |-> StrVal("$prefix_pillar"),
                             material |-> Dict([color |-> StrVal("$color")]),
                             position |-> Dict([x |-> StrVal("$position_x"), y |-> IntVal(2),
                                                z |-> StrVal("$position_z")])])>>],
     pair_group |->
        [type |-> "object_group", name |-> "pair_group",
         objects |-> <<Dict([name |-> StrVal("$prefix"),
                             position |-> UniformVector(1),
                             rotation |-> UniformVector(0),
                             scale |-> UniformVector(1)]),
                       Dict([name |-> StrVal("post")])>>],
     door_animation |->
        [type |-> "animation_sequence", name |-> "door_animation",
         animations |-> <<Dict([name |-> StrVal("opening"),
                                keyframes |-> ListVal(<<
                                   Dict([time |-> IntVal(0)]),
                                   Dict([time |-> IntVal(1),
                                         rotation |-> Dict([y |-> StrVal("$rotation_y")])])
                                >>)])>>]]

\* Transforms: none of the groups, one axis or all axes of a group, a group
\* without axes, and the transform of test_transform_application.
TransformOptions ==
    {Dict(EmptyDict),
     Dict([position |-> Dict([x |-> IntVal(2), y |-> IntVal(-1), z |-> IntVal(3)])]),
     Dict([position |-> Dict([x |-> IntVal(2)])]),
     Dict([position |-> Dict(EmptyDict)]),
     Dict([rotation |-> Dict([y |-> IntVal(1)])]),
     Dict([scale |-> UniformVector(2)]),
     Dict([scale |-> Dict([x |-> IntVal(3)])]),
     Dict([position |-> Dict([x |-> IntVal(2), y |-> IntVal(-1), z |-> IntVal(3)]),
           rotation |-> Dict([y |-> IntVal(1)]),
           scale |-> UniformVector(2)])}

\* parameters of test_object_pattern_application, and the same without the
\* coordinates.
ObjectParameters ==
    {[prefix |-> StrVal("north"), color |-> IntVal(8421504),
      position_x |-> IntVal(5), position_z |-> IntVal(5)],
     [prefix |-> StrVal("north")]}

WithTransform(params, transform) ==
    [key \in (DOMAIN params) \cup {"transform"} |->
        IF key = "transform" THEN transform ELSE params[key]]

AnimationParameters ==
    {[targets |-> ListVal(<<StrVal("test_door")>>), rotation_y |-> IntVal(2)],
     [targets |-> ListVal(<<StrVal("north"), StrVal("missing")>>), rotation_y |-> IntVal(2)],
     [targets |-> ListVal(<<StrVal("missing")>>)],
     [rotation_y |-> IntVal(2)]}

\* The calls: object patterns with object parameters, with and without a
\* transform; the animation pattern with targets; a name the library lacks.
PatternCalls ==
    ({"pillar_group", "pair_group"}
        \X (ObjectParameters
            \cup {WithTransform(params, transform) :
                     params \in ObjectParameters, transform \in TransformOptions}))
    \cup ({"door_animation"} \X AnimationParameters)
    \cup ({"nonexistent"} \X {EmptyDict, [prefix |-> StrVal("north")]})

\* The scene of the tests, empty or holding the door, and the scene
\* two applications of the pair group leave.
PatternScenes ==
    {[objects |-> <<>>, lights |-> <<>>],
     apply_pattern(PatternLibrary,
        apply_pattern(PatternLibrary, [objects |-> <<>>, lights |-> <<>>], "pair_group",
                      [prefix |-> StrVal("north")]).scene,
        "pair_group", [prefix |-> StrVal("north")]).scene,
     [objects |-> <<ObjectFromKwargs(Dict([name |-> StrVal("test_door"),
                                           position |-> Dict([x |-> IntVal(0),
                                                              y |-> IntVal(1),
                                                              z |-> IntVal(0)])]))>>,
      lights |-> <<LightDefinition("ambient", NoneVal, FALSE, 0)>>]}

InitPatterns ==
    /\ pattern_library = PatternLibrary
    /\ pattern_scene \in PatternScenes
    /\ applied = NoneVal
    /\ last_log = ""
    /\ TemplatesIdle
    /\ SubstIdle
    /\ ScatterIdle
    /\ SceneIdle
    /\ AnimIdle
    /\ ServiceIdle
    /\ LoadIdle
    /\ TimelineIdle

\* Calls made so far on the scene.
CallsMade == IF applied = NoneVal THEN 0 ELSE applied.call

ApplyPattern(pattern_name, params) ==
    /\ CallsMade < MaxPatternCalls
    /\ LET after == apply_pattern(pattern_library, pattern_scene, pattern_name, params) IN
          /\ pattern_scene' = after.scene
          /\ last_log' = after.log
    /\ applied' = [call |-> CallsMade + 1, pattern_name |-> pattern_name,
                   parameters |-> params]
    /\ UNCHANGED pattern_library
    /\ UNCHANGED <<templateVars, substVars, scatterVars, sceneVars, animVars, serviceVars, loadVars, timelineVars>>

NextPatterns == \E call \in PatternCalls : ApplyPattern(call[1], call[2])

SpecPatterns == InitPatterns /\ [][NextPatterns]_vars

C25_MossCountsFollowScatter ==
    scene_def # NoneVal =>
       \A i \in 1..Len(scene_def.objects) :
          scene_def.objects[i].name = "moss_patches" =>
             LET moss == scene_def.objects[i] IN
             /\ moss.geometry.instance_count = moss.instance_data.positions
             /\ moss.instance_data.scales = moss.instance_data.positions
             /\ moss.instance_data.rotations = moss.instance_data.positions

\* The layer an object of the scene comes from: 0 the template, 1 terrain,
\* 2 architecture, 3 decorations, 4 interactive objects.
LayerOf(object) ==
    IF object.geometry # NoneVal
    THEN (IF object.geometry.type = "template" THEN 0
          ELSE IF object.geometry.type \in {"PlaneGeometry", "InstancedMesh"} THEN 1
          ELSE 2)
    ELSE IF object.interaction_data = NoneVal THEN 3
    ELSE 4

\* C26: in the object list of the scene, at the return and at every step
\* before it, template objects come first, then terrain objects, then
\* architecture objects, then decoration objects, then interactive objects.
C26_ObjectsInLayerOrder ==
    scene_def # NoneVal =>
       \A i \in 1..Len(scene_def.objects), j \in 1..Len(scene_def.objects) :
          i < j => LayerOf(scene_def.objects[i]) <= LayerOf(scene_def.objects[j])

\* A returned scene with objects of all five layers.
C26_Witness ==
    /\ scene_pc = "returned"
    /\ {LayerOf(scene_def.objects[i]) : i \in 1..Len(scene_def.objects)} = 0..4

\* The types of the effects in the post-processing list of the scene.
EffectTypes == {scene_def.post_processing[i].type : i \in 1..Len(scene_def.post_processing)}

\* C27: the scene returned for a location with a torch decoration has a
\* volumetricLight effect in its post-processing list, and SSAO and bloom
\* exactly when the tier of the request enables them.
C27_VolumetricLightSurvivesQuality ==
    (scene_pc = "returned" /\ location_data # NoneVal /\ has_torches(location_data)) =>
        /\ "volumetricLight" \in EffectTypes
        /\ "ssao" \in EffectTypes <=> quality_settings.ssao_enabled
        /\ "bloom" \in EffectTypes <=> quality_settings.bloom_enabled

\* The request names a template the store does not hold.
TemplateUnresolved == request # NoneVal /\ request.template_name \notin DOMAIN templates

\* C19: once generate_scene has looked up a template name the store does
\* not hold, the operation has failed with `Template not found`: no
\* quality settings were resolved, no scene definition was built, no layer
\* ran, and no response is returned.
C19_UnresolvedTemplateFails ==
    (TemplateUnresolved /\ scene_pc # "start") =>
        /\ scene_pc = "failed"
        /\ scene_error = "Template not found"
        /\ scene_template = NoneVal
        /\ quality_settings = NoneVal
        /\ scene_def = NoneVal
        /\ cursor = 0
        /\ response = NoneVal

\* A request for the template c, of a valid tier and with a furnished
\* location, on a store that holds other templates, has failed.
C19_Witness ==
    /\ TemplateUnresolved
    /\ DOMAIN templates # {}
    /\ request.quality_level = "high"
    /\ location_data # NoneVal
    /\ scene_pc = "failed"
    /\ scene_error = "Template not found"

(***************************************************************************)
(* Properties of pattern application                                       *)
(***************************************************************************)
\* The step is an apply_pattern call of a pattern of the given type.
CallOf(type) ==
    /\ applied' # applied
    /\ applied'.pattern_name \in DOMAIN pattern_library
    /\ pattern_library[applied'.pattern_name].type = type

\* The keys of the parameters a placeholder text begins with.
KeysLeading(text, params) ==
    {key \in DOMAIN params :
        /\ Len(key) < Len(text)
        /\ SubSeq(text, 1, Len(key)) = key
        /\ params[key].t = "str"}

\* A placeholder replaced by the value of its parameter: `$color` by the
\* colour, `$prefix_pillar` by the prefix followed by `_pillar`.
RECURSIVE FillPlaceholders(_, _)
FillPlaceholders(value, params) ==
    IF value.t = "str"
    THEN (IF ~StartsWithDollar(value.v) THEN value
          ELSE IF ParamName(value.v) \in DOMAIN params THEN params[ParamName(value.v)]
          ELSE IF KeysLeading(ParamName(value.v), params) = {} THEN value
          ELSE LET key == CHOOSE k \in KeysLeading(ParamName(value.v), params) :
                             \A other \in KeysLeading(ParamName(value.v), params) :
                                Len(other) <= Len(k)
               IN StrVal(params[key].v
                         \o SubSeq(ParamName(value.v), Len(key) + 1, Len(ParamName(value.v)))))
    ELSE IF value.t = "dict"
    THEN DictVal([k \in DOMAIN value.v |-> FillPlaceholders(value.v[k], params)])
    ELSE value

\* C15: an object_group pattern of k objects, applied without a transform,
\* appends k objects in pattern order, each the pattern object with its
\* placeholders replaced by the parameter values; the objects already in
\* the scene stay as they are.
C15_ObjectGroupAppendsFilledObjects ==
    [][(CallOf("object_group") /\ "transform" \notin DOMAIN applied'.parameters) =>
         LET objects == pattern_library[applied'.pattern_name].objects IN
         pattern_scene'.objects =
            pattern_scene.objects
            \o [i \in 1..Len(objects) |->
                   ObjectFromKwargs(FillPlaceholders(objects[i], applied'.parameters))]]_vars

TransformGroups == {"position", "rotation", "scale"}
GroupUnit(group) == IF group = "scale" THEN 1 ELSE 0

\* The components the transform touches are numbers on all three axes.
Transformable(raw, transform) ==
    \A group \in TransformGroups \cap DOMAIN transform.v :
       /\ group \in DOMAIN raw.v =>
             \A axis \in Axes : axis \in DOMAIN raw.v[group].v /\ raw.v[group].v[axis].t = "int"
       /\ \A axis \in DOMAIN transform.v[group].v : transform.v[group].v[axis].t = "int"

\* The component of an object, the unit when the object has no such group.
ComponentOf(raw, group, axis) ==
    IF group \in DOMAIN raw.v THEN raw.v[group].v[axis].v ELSE GroupUnit(group)

\* The amount of a transform along an axis, the unit when it names none.
AmountOf(transform, group, axis) ==
    IF axis \in DOMAIN transform.v[group].v THEN transform.v[group].v[axis].v
    ELSE GroupUnit(group)

\* C16: every object an object_group pattern emits under a transform has,
\* for each group the transform names, position and rotation components
\* equal to the substituted ones plus the transform's and scale components
\* equal to the substituted ones times the transform's; a group the
\* transform does not name is as substituted, so {} changes nothing.
C16_TransformComposes ==
    [][CallOf("object_group") =>
         LET objects == pattern_library[applied'.pattern_name].objects
             params == applied'.parameters
             transform == ParametersGet(params, "transform", DictVal(EmptyDict))
             before == Len(pattern_scene.objects)
         IN (\A i \in 1..Len(objects) :
                Transformable(substitute_parameters(objects[i], params), transform)) =>
            /\ Len(pattern_scene'.objects) = before + Len(objects)
            /\ \A i \in 1..Len(objects) : \A group \in TransformGroups :
                  LET raw == substitute_parameters(objects[i], params)
                      emitted == pattern_scene'.objects[before + i].kwargs
                  IN IF group \in DOMAIN transform.v
                     THEN \A axis \in Axes :
                             emitted.v[group].v[axis].v =
                                IF group = "scale"
                                THEN ComponentOf(raw, group, axis)
                                     * AmountOf(transform, group, axis)
                                ELSE ComponentOf(raw, group, axis)
                                     + AmountOf(transform, group, axis)
                     ELSE /\ group \in DOMAIN emitted.v <=> group \in DOMAIN raw.v
                          /\ group \in DOMAIN raw.v => emitted.v[group] = raw.v[group]]_vars

\* The pair group was applied with the transform of the tests: its first
\* object went from (1, 1, 1) to (3, 0, 4) at twice the scale, and its
\* second, which had no position, sits at the translation.
C16_Witness ==
    /\ applied # NoneVal
    /\ applied.pattern_name = "pair_group"
    /\ "transform" \in DOMAIN applied.parameters
    /\ DOMAIN applied.parameters["transform"].v = TransformGroups
    /\ LET n == Len(pattern_scene.objects) IN
          /\ n >= 2
          /\ pattern_scene.objects[n - 1].kwargs.v["position"] =
                DictVal([x |-> IntVal(3), y |-> IntVal(0), z |-> IntVal(4)])
          /\ pattern_scene.objects[n - 1].kwargs.v["scale"] = UniformVector(2)
          /\ pattern_scene.objects[n].kwargs.v["position"] =
                DictVal([x |-> IntVal(2), y |-> IntVal(-1), z |-> IntVal(3)])

\* The targets of the call under way.
TargetsOf(params) == Range(ListOrEmpty(ParametersGet(params, "targets", ListVal(<<>>))))

\* The animation list of object i after the specs of the call were appended.
WithAnimations(i) ==
    ListVal(ListOrEmpty(pattern_scene.objects[i].animations)
            \o processed_animations(pattern_library[applied'.pattern_name].animations,
                                    applied'.parameters))

C18_UnknownPatternIsNoOp ==
    [][(applied' # applied /\ applied'.pattern_name \notin DOMAIN pattern_library) =>
         /\ pattern_scene' = pattern_scene
         /\ last_log' = "warning: Pattern not found"]_vars

\* The second call named a pattern the library lacks, on a scene the first
\* call had filled.
C18_Witness ==
    /\ applied # NoneVal
    /\ applied.call = 2
    /\ applied.pattern_name \notin DOMAIN pattern_library
    /\ pattern_scene.objects # <<>>
    /\ last_log = "warning: Pattern not found"

(***************************************************************************)
(* The visualization service (services/visualization.py): quality presets, *)
(* scene generation and the cache of active scenes.                        *)
(***************************************************************************)
MaxServiceCalls == 2

BoolVal(b) == [t |-> "bool", v |-> b]

\* self.quality_presets as __init__ sets it.
service_quality_presets ==
    [low    |-> DictVal([shadows |-> BoolVal(FALSE), ambient_occlusion |-> BoolVal(FALSE),
                         bloom |-> BoolVal(FALSE), anti_aliasing |-> BoolVal(FALSE),
                         texture_quality |-> StrVal("low"), draw_distance |-> IntVal(100)]),
     medium |-> DictVal([shadows |-> BoolVal(TRUE), ambient_occlusion |-> BoolVal(FALSE),
                         bloom |-> BoolVal(TRUE), anti_aliasing |-> BoolVal(TRUE),
                         texture_quality |-> StrVal("medium"), draw_distance |-> IntVal(200)]),
     high   |-> DictVal([shadows |-> BoolVal(TRUE), ambient_occlusion |-> BoolVal(TRUE),
                         bloom |-> BoolVal(TRUE), anti_aliasing |-> BoolVal(TRUE),
                         texture_quality |-> StrVal("high"), draw_distance |-> IntVal(500)]),
     ultra  |-> DictVal([shadows |-> BoolVal(TRUE), ambient_occlusion |-> BoolVal(TRUE),
                         bloom |-> BoolVal(TRUE), anti_aliasing |-> BoolVal(TRUE),
                         texture_quality |-> StrVal("ultra"), draw_distance |-> IntVal(1000),
                         ray_tracing |-> BoolVal(TRUE)])]

\* VisualizationService._get_quality_settings.
service_get_quality_settings(quality_level) ==
    IF quality_level = "all" THEN Ok(DictVal(service_quality_presets))
    ELSE IF quality_level \notin DOMAIN service_quality_presets
    THEN Raise("Invalid quality level: " \o quality_level)
    ELSE Ok(service_quality_presets[quality_level])

\* {**first, **second}
MergeDicts(first, second) ==
    DictVal([key \in DOMAIN first.v \cup DOMAIN second.v |->
                IF key \in DOMAIN second.v THEN second.v[key] ELSE first.v[key]])

create_default_camera ==
    [id |-> "main_camera", type |-> "PerspectiveCamera",
     position |-> [x |-> 0, y |-> 5, z |-> 10], lookAt |-> [x |-> 0, y |-> 0, z |-> 0]]

create_default_lighting ==
    <<[id |-> "ambient_light", type |-> "AmbientLight", castShadow |-> FALSE],
      [id |-> "main_light", type |-> "DirectionalLight", castShadow |-> TRUE]>>

create_default_environment ==
    [backgroundColor |-> "#87ceeb", fog |-> [type |-> "exponential", color |-> "#87ceeb"]]

\* The scene definition generate_scene builds.
ServiceSceneDefinition(scene_id, scene_request, settings) ==
    [t |-> "SceneDefinition", scene_id |-> scene_id,
     player_id |-> scene_request.player_id, location_id |-> scene_request.location_id,
     camera |-> create_default_camera, lights |-> create_default_lighting,
     environment |-> create_default_environment,
     renderer_settings |-> MergeDicts(scene_request.renderer_settings, settings)]

ServiceSceneResponse(request_id, scene_id, scene, status, error) ==
    [t |-> "SceneResponse", request_id |-> request_id, scene_id |-> scene_id,
     scene_definition |-> scene, asset_urls |-> EmptyDict, status |-> status,
     error |-> error]

\* VisualizationService.generate_scene: the cache, the count of uuids drawn
\* and the response after the call.  The n-th uuid4 value is UUID(n).
service_generate_scene(scenes, issued, scene_request) ==
    LET scene_id == issued + 1
        settings == service_get_quality_settings(scene_request.quality_level)
    IN IF ~settings.ok
       THEN [active_scenes |-> scenes, uuids_issued |-> issued + 2,
             response |-> ServiceSceneResponse(UUID(issued + 2), NoneVal, NoneVal, "error",
                                               StrVal(settings.exception))]
       ELSE LET scene == ServiceSceneDefinition(UUID(scene_id), scene_request, settings.value)
            IN [active_scenes |-> [id \in DOMAIN scenes \cup {scene_id} |->
                                      IF id = scene_id THEN scene ELSE scenes[id]],
                uuids_issued |-> issued + 2,
                response |-> ServiceSceneResponse(UUID(issued + 2), UUID(scene_id), scene,
                                                  "generated", NoneVal)]

ServiceSceneRequest(quality_level, include_assets, renderer_settings) ==
    [t |-> "SceneRequest", player_id |-> "player-1", location_id |-> "location-1",
     quality_level |-> quality_level, include_assets |-> include_assets,
     renderer_settings |-> renderer_settings]

\* Tier names a request may carry: the presets and names outside them.
QualityLevels == {"low", "medium", "high", "ultra", "all", "epic", ""}

ServiceSceneRequests ==
    {ServiceSceneRequest(level, include, settings) :
        level \in QualityLevels, include \in BOOLEAN,
        settings \in {DictVal(EmptyDict),
                      DictVal([shadows |-> BoolVal(FALSE), antialias |-> BoolVal(TRUE)])}}

InitService ==
    /\ ServiceIdle
    /\ LoadIdle
    /\ TimelineIdle
    /\ TemplatesIdle
    /\ SubstIdle
    /\ ScatterIdle
    /\ SceneIdle
    /\ AnimIdle
    /\ PatternIdle

GenerateScene(scene_request) ==
    /\ uuids_issued + 2 <= 2 * MaxServiceCalls
    /\ LET after == service_generate_scene(active_scenes, uuids_issued, scene_request) IN
          /\ active_scenes' = after.active_scenes
          /\ uuids_issued' = after.uuids_issued
          /\ service_response' = after.response
    /\ service_request' = scene_request
    /\ UNCHANGED <<templateVars, substVars, scatterVars, sceneVars, animVars, patternVars,
                   loadVars, timelineVars>>

\* The attributes of a SceneDefinition that are fields, and names that
\* hasattr finds on it without their being fields (methods of the model).
SceneDefinitionFields ==
    {"scene_id", "player_id", "location_id", "camera", "lights", "environment",
     "renderer_settings"}
SceneDefinitionMethods == {"copy", "json"}

\* The loop of update_scene over updates.items() from item i on: the scene
\* when the loop ends or when setattr raises on a name that is no field.
RECURSIVE apply_updates(_, _, _)
apply_updates(scene, updates, i) ==
    IF i > Len(updates.order) THEN Ok(scene)
    ELSE LET key == updates.order[i] IN
         IF key \in SceneDefinitionFields
         THEN apply_updates([scene EXCEPT ![key] = updates.values[key]], updates, i + 1)
         ELSE IF key \in SceneDefinitionMethods
         THEN [ok |-> FALSE, exception |-> "ValueError", value |-> scene]
         ELSE apply_updates(scene, updates, i + 1)

\* Variant: the response is built from the updated scene, the cache keeps
\* the scene it had.
service_update_scene_unwritten(scenes, issued, scene_id, updates) ==
    IF scene_id \notin DOMAIN scenes
    THEN [active_scenes |-> scenes, uuids_issued |-> issued + 1,
          response |-> ServiceSceneResponse(UUID(issued + 1), UUID(scene_id), NoneVal,
                                            "error", StrVal("Scene not found"))]
    ELSE [active_scenes |-> scenes, uuids_issued |-> issued + 1,
          response |-> ServiceSceneResponse(UUID(issued + 1), UUID(scene_id),
                                            apply_updates(scenes[scene_id], updates, 1).value,
                                            "updated", NoneVal)]

\* VisualizationService.update_scene.  The body has no await: once the
\* event loop runs the call it runs to its return.
service_update_scene(scenes, issued, scene_id, updates) ==
    IF scene_id \notin DOMAIN scenes
    THEN [active_scenes |-> scenes, uuids_issued |-> issued + 1,
          response |-> ServiceSceneResponse(UUID(issued + 1), UUID(scene_id), NoneVal,
                                            "error", StrVal("Scene not found"))]
    ELSE LET updated == apply_updates(scenes[scene_id], updates, 1) IN
         [active_scenes |-> [scenes EXCEPT ![scene_id] = updated.value],
          uuids_issued |-> issued + 1,
          response |-> IF updated.ok
                       THEN ServiceSceneResponse(UUID(issued + 1), UUID(scene_id),
                                                 updated.value, "updated", NoneVal)
                       ELSE ServiceSceneResponse(UUID(issued + 1), UUID(scene_id), NoneVal,
                                                 "error", StrVal(updated.exception))]

\* updates: the keys in the order of the mapping, and their values.
SceneUpdates(order, values) == [order |-> order, values |-> values]

UpdateOptions ==
    {SceneUpdates(<<>>, EmptyDict),
     SceneUpdates(<<"location_id">>, [location_id |-> "location-2"]),
     SceneUpdates(<<"player_id">>, [player_id |-> "player-2"]),
     SceneUpdates(<<"renderer_settings", "visible">>,
                  [renderer_settings |-> DictVal(EmptyDict), visible |-> TRUE]),
     SceneUpdates(<<"location_id", "copy", "player_id">>,
                  [location_id |-> "location-3", copy |-> TRUE, player_id |-> "player-3"])}

\* An id beyond those the uuid4 calls of a run return.
UnknownSceneId == 2 * MaxServiceCalls + 1

UpdateScene(scene_id, updates) ==
    /\ uuids_issued < 2 * MaxServiceCalls
    /\ LET after == service_update_scene(active_scenes, uuids_issued, scene_id, updates) IN
          /\ active_scenes' = after.active_scenes
          /\ uuids_issued' = after.uuids_issued
          /\ service_response' = after.response
    /\ service_request' = [t |-> "update_scene", scene_id |-> scene_id, updates |-> updates]
    /\ UNCHANGED <<templateVars, substVars, scatterVars, sceneVars, animVars, patternVars,
                   loadVars, timelineVars>>

\* Calls reach the event loop in any order; each runs to completion.
NextService ==
    \/ \E scene_request \in ServiceSceneRequests : GenerateScene(scene_request)
    \/ \E scene_id \in DOMAIN active_scenes \cup {UnknownSceneId}, updates \in UpdateOptions :
          UpdateScene(scene_id, updates)

SpecService == InitService /\ [][NextService]_vars

\* The tiers the specification enumerates.
EnumeratedTiers == {"low", "medium", "high", "ultra"}

\* C20: a generate_scene call whose request carries a tier name outside
\* {low, medium, high, ultra} gets no settings from the tier resolution,
\* which raises, is answered with an error and no scene, and stores no
\* entry in the active-scene cache.
C20_UndefinedTierRaisesAndStoresNothing ==
    [][(uuids_issued' # uuids_issued
        /\ service_request'.t = "SceneRequest"
        /\ service_request'.quality_level \notin EnumeratedTiers) =>
          /\ ~service_get_quality_settings(service_request'.quality_level).ok
          /\ active_scenes' = active_scenes
          /\ service_response'.status = "error"
          /\ service_response'.scene_definition = NoneVal]_vars

\* The keys an update_scene call writes: the fields among its keys that
\* come before the first key setattr refuses.
KeysWritten(updates) ==
    {updates.order[i] : i \in {j \in 1..Len(updates.order) :
        /\ updates.order[j] \in SceneDefinitionFields
        /\ \A h \in 1..j : updates.order[h] \notin SceneDefinitionMethods}}

\* C23: in every order in which generate_scene and update_scene calls
\* run, an update_scene call on a cached id writes its attributes to the
\* cached scene and leaves every other attribute of that scene, and every
\* other scene, as the calls before it left them; an update_scene call on
\* an id that is not cached returns an error and leaves the cache as it
\* was; a generate_scene call leaves the cached scenes as they were.
C23_UpdatesAreNotLost ==
    [][uuids_issued' # uuids_issued =>
         IF service_request'.t = "update_scene"
         THEN LET id == service_request'.scene_id
                  updates == service_request'.updates
              IN IF id \notin DOMAIN active_scenes
                 THEN /\ active_scenes' = active_scenes
                      /\ service_response'.status = "error"
                      /\ service_response'.scene_definition = NoneVal
                 ELSE /\ DOMAIN active_scenes' = DOMAIN active_scenes
                      /\ \A other \in DOMAIN active_scenes \ {id} :
                            active_scenes'[other] = active_scenes[other]
                      /\ \A key \in SceneDefinitionFields :
                            IF key \in KeysWritten(updates)
                            THEN active_scenes'[id][key] = updates.values[key]
                            ELSE active_scenes'[id][key] = active_scenes[id][key]
         ELSE \A id \in DOMAIN active_scenes :
                 id \in DOMAIN active_scenes' /\ active_scenes'[id] = active_scenes[id]]_vars

\* Two update_scene calls on the scene of one generate_scene call, the
\* first writing the location and the second the player: both writes are
\* in the cache.
C23_Witness ==
    /\ service_request # NoneVal
    /\ service_request.t = "update_scene"
    /\ service_request.updates.order = <<"player_id">>
    /\ service_request.scene_id \in DOMAIN active_scenes
    /\ active_scenes[service_request.scene_id].player_id = "player-2"
    /\ active_scenes[service_request.scene_id].location_id = "location-2"
    /\ service_response.status = "updated"

(***************************************************************************)
(* Construction of the template manager: the directory scans.              *)
(***************************************************************************)
MaxFiles == 3

\* A file of the directory: its stem and what json.load makes of it.
JsonFile(stem, content) == [stem |-> stem, content |-> content]
InvalidJson == [t |-> "invalid json"]

SceneTemplateFields ==
    {"name", "base_template", "objects", "lights", "camera", "environment",
     "animations", "patterns", "variables"}

\* SceneTemplate(**template_data): the template, or the error of the call.
template_from_data(template_data) ==
    IF template_data = InvalidJson THEN Raise("JSONDecodeError")
    ELSE IF template_data.t # "dict" THEN Raise("TypeError")
    ELSE IF ~(DOMAIN template_data.v \subseteq SceneTemplateFields) THEN Raise("TypeError")
    ELSE IF "name" \notin DOMAIN template_data.v THEN Raise("TypeError")
    ELSE LET field(key) == DictGet(template_data, key, NoneVal) IN
         Ok(SceneTemplate(template_data.v["name"].v, field("base_template"),
                          field("objects"), field("lights"), field("camera"),
                          field("environment"), field("animations"), field("patterns"),
                          field("variables")))

\* The loop of _load_templates from file i on: the store when the loop ends
\* or the first exception leaves it.
RECURSIVE load_templates(_, _, _)
load_templates(files, i, store) ==
    IF i > Len(files) THEN [store |-> store, log |-> <<"info: Loaded scene templates">>]
    ELSE LET template == template_from_data(files[i].content) IN
         IF ~template.ok
         THEN [store |-> store, log |-> <<"error: Failed to load scene templates">>]
         ELSE load_templates(files, i + 1,
                 [name \in DOMAIN store \cup {template.value.name} |->
                     IF name = template.value.name THEN template.value ELSE store[name]])

\* The loop of _load_patterns from file i on.
RECURSIVE load_patterns(_, _, _)
load_patterns(files, i, library) ==
    IF i > Len(files) THEN [store |-> library, log |-> <<"info: Loaded patterns">>]
    ELSE IF files[i].content = InvalidJson
    THEN [store |-> library, log |-> <<"error: Failed to load patterns">>]
    ELSE load_patterns(files, i + 1,
            [stem \in DOMAIN library \cup {files[i].stem} |->
                IF stem = files[i].stem THEN files[i].content ELSE library[stem]])

\* The template files a directory may hold: two that load, one that is not
\* JSON, one whose JSON has a key SceneTemplate does not take.
TemplateFilePool ==
    {JsonFile("a", DictVal([name |-> StrVal("a"),
                            objects |-> ListVal(<<TemplateObject("base_object")>>)])),
     JsonFile("b", DictVal([name |-> StrVal("b"), base_template |-> StrVal("a")])),
     JsonFile("invalid", InvalidJson),
     JsonFile("extra", DictVal([name |-> StrVal("extra"), version |-> IntVal(2)]))}

PatternFilePool ==
    {JsonFile("pillar_group", DictVal([name |-> StrVal("pillar_group"),
                                       type |-> StrVal("object_group")])),
     JsonFile("door_animation", DictVal([name |-> StrVal("door_animation"),
                                         type |-> StrVal("animation_sequence")])),
     JsonFile("invalid", InvalidJson)}

\* The orders in which glob may yield up to MaxFiles files of a pool.
ScanOrders(pool) ==
    UNION {{files \in [1..n -> pool] : \A i, j \in 1..n : i # j => files[i] # files[j]} :
              n \in 0..MaxFiles}

InitLoad ==
    /\ template_files \in ScanOrders(TemplateFilePool)
    /\ pattern_files \in ScanOrders(PatternFilePool)
    /\ load_pc = "start"
    /\ load_log = <<>>
    /\ TemplatesIdle
    /\ SubstIdle
    /\ ScatterIdle
    /\ SceneIdle
    /\ AnimIdle
    /\ PatternIdle
    /\ ServiceIdle
    /\ TimelineIdle

\* TemplateManager.__init__: both scans, each inside its own try.
Construct ==
    /\ load_pc = "start"
    /\ LET scanned == load_templates(template_files, 1, EmptyDict)
           patterns_scanned == load_patterns(pattern_files, 1, EmptyDict)
       IN /\ templates' = scanned.store
          /\ pattern_library' = patterns_scanned.store
          /\ load_log' = scanned.log \o patterns_scanned.log
    /\ load_pc' = "constructed"
    /\ UNCHANGED <<template_files, pattern_files, requested, result, pattern_scene, applied,
                   last_log>>
    /\ UNCHANGED <<substVars, scatterVars, sceneVars, animVars, serviceVars, timelineVars>>

NextLoad == Construct

SpecLoad == InitLoad /\ [][NextLoad]_vars

\* C21: after construction every template file that is valid on its own is
\* in the store under its name, and every pattern file that is valid on its
\* own is in the library under its stem, whichever files fail and in
\* whatever order the directory was scanned.
C21_OnlyFailingEntriesAbsent ==
    load_pc = "constructed" =>
        /\ \A i \in 1..Len(template_files) :
              LET template == template_from_data(template_files[i].content) IN
              template.ok =>
                 /\ template.value.name \in DOMAIN templates
                 /\ templates[template.value.name] = template.value
        /\ \A i \in 1..Len(pattern_files) :
              pattern_files[i].content # InvalidJson =>
                 /\ pattern_files[i].stem \in DOMAIN pattern_library
                 /\ pattern_library[pattern_files[i].stem] = pattern_files[i].content


(***************************************************************************)
(* The state machines of the interactive objects                           *)
(***************************************************************************)
StateNames(idata) == {idata.states[i].name : i \in 1..Len(idata.states)}

StateNamed(idata, name) ==
    CHOOSE st \in {idata.states[i] : i \in 1..Len(idata.states)} : st.name = name

\* The states one listed transition away, its conditions met by the variables.
Successors(idata, name) ==
    LET transitions == StateNamed(idata, name).transitions IN
    {transitions[tn].target :
        tn \in {x \in DOMAIN transitions :
                   ConditionsHold(transitions[x].conditions, idata.variables)}}

\* The states reached from a set of states by up to n further transitions.
RECURSIVE ReachedWithin(_, _, _)
ReachedWithin(idata, from, n) ==
    IF n = 0 THEN from
    ELSE ReachedWithin(idata,
            from \cup UNION {Successors(idata, name) : name \in from \cap StateNames(idata)},
            n - 1)

\* The states reached from a state by one transition or more.
ReachedFrom(idata, name) ==
    ReachedWithin(idata, Successors(idata, name), Len(idata.states))

Closed(idata) ==
    /\ idata.current_state \in StateNames(idata)
    /\ \A i \in 1..Len(idata.states) :
          \A tn \in DOMAIN idata.states[i].transitions :
              idata.states[i].transitions[tn].target \in StateNames(idata)

NoDeadEnd(idata) ==
    \A i \in 1..Len(idata.states) : DOMAIN idata.states[i].transitions # {}

ReturnsToInitial(idata) ==
    \A name \in StateNames(idata) : idata.current_state \in ReachedFrom(idata, name)

\* is_locked of a chest; the other objects have no such variable.
IsLocked(idata) ==
    "is_locked" \in DOMAIN idata.variables /\ idata.variables["is_locked"]

\* The objects of the scene under construction that carry a state machine.
Built ==
    IF scene_def = NoneVal THEN {}
    ELSE {i \in 1..Len(scene_def.objects) :
             scene_def.objects[i].interactive /\ scene_def.objects[i].interaction_data # NoneVal}

\* C30: the state machine of every interactive object the composer builds
\* is closed (current_state and every transition target name a state of its
\* own list), every state lists a transition, and, as built, its initial
\* state is reached again from every state by listed transitions (for a
\* chest, when is_locked is false).
C30_StateMachinesClosed ==
    \A i \in Built :
        LET idata == scene_def.objects[i].interaction_data IN
        /\ Closed(idata)
        /\ NoDeadEnd(idata)
        /\ (scene_pc # "returned" /\ ~IsLocked(idata)) => ReturnsToInitial(idata)

\* A scene about to be returned that holds a door, a lever, a button and an
\* unlocked chest, each in its initial state.
C30_Witness ==
    /\ scene_pc \notin {"returned", "failed"}
    /\ \A ty \in {"door", "lever", "button", "chest"} :
          \E i \in Built :
              /\ scene_def.objects[i].interaction_data.type = ty
              /\ ~IsLocked(scene_def.objects[i].interaction_data)

====
